---- MODULE Spec2Model ----
(***************************************************************************)
(* State-machine model of the core of the peer:                            *)
(*   - the connection pool behaviour (connection-pool/src/behaviour.rs),   *)
(*   - the Kademlia wrapper (crates/kademlia/src/behaviour.rs),            *)
(*   - the particle actor (particle-actors/src/actor.rs),                  *)
(*   - the chain connector (crates/chain-connector/src/connector.rs),      *)
(*   - the FaaS behaviour (server/src/faas/behaviour.rs).                  *)
(* Each subsystem has its own next-state relation and specification; the   *)
(* variables of the other subsystems stay unchanged under it.              *)
(***************************************************************************)
EXTENDS Integers, Sequences, FiniteSets, TLC

\* ---------------------------------------------------------------- bounds
MaxSteps == 5          \* commands and swarm events handled by the pool in one run
MaxIngest == 3         \* particles handed to one actor, the first one included
NumCallers == 2        \* concurrent callers of send_tx
MaxNonce == 3          \* transactions the chain accepts in one run
MaxTime == 5           \* clock ticks in one run
MaxIds == 5            \* query ids and oneshot channels handed out in one run
MaxQueued == 1         \* KademliaEvents libp2p holds back at a time
QueryTimeout == 1      \* KademliaConfig.query_timeout, in clock ticks
BanCooldown == 2       \* KademliaConfig.ban_cooldown, in clock ticks
PeerFailThreshold == 2 \* KademliaConfig.peer_fail_threshold
MaxRefresh == 1        \* buckets a bootstrap refreshes after its first lookup
MaxLifecycle == 4      \* lifecycle events the pool publishes
MaxReconnects == 2      \* reconnect loops running at a time
MaxElapsedTime == 2     \* backoff intervals that fit into max_elapsed_time
MaxRestarts == 2        \* websocket clients rebuilt in one run
OutletCapacity == 1     \* buffer of the channel that carries particles to the plumber
MaxCalls == 3           \* FaaSCalls handed to FaaSBehaviour::execute in one run
MaxServices == 2        \* FaaS instances created in one run

LocalPeer == "local"                 \* ConnectionPoolBehaviour.peer_id
RemotePeers == {"p1"}
Peers == RemotePeers \cup {LocalPeer}
NoPeer == "none"                     \* Option<PeerId>::None
Addrs == {"a1", "a2"}
Particles == {"x", "y"}
NoParticle == "none"

VARIABLES
    contacts,      \* ConnectionPoolBehaviour.contacts : PeerId -> Peer
    dialing,       \* ConnectionPoolBehaviour.dialing : Multiaddr -> Vec<oneshot>
    events,        \* ConnectionPoolBehaviour.events : VecDeque<SwarmEventType>
    queue,         \* ConnectionPoolBehaviour.queue : VecDeque<Particle>
    subscribers,   \* ConnectionPoolBehaviour.subscribers : Vec<UnboundedSender>
    answered,      \* the answers sent on one-shot channels by the last step
    chans,         \* the lifecycle channels: receiver alive, events received
    published,     \* every LifecycleEvent passed to lifecycle_event, in order
    established,   \* swarm: established connections, peer -> addr -> count
    swarm_dials,   \* swarm: dial attempts in flight
    steps,         \* number of pool steps taken so far
    cmd,           \* the command or swarm event the pool handled in the last step
    vm,            \* Actor.vm : VmState, "Idle" (holds the runtime) or "Executing"
    fut,           \* the task handle held by VmState::Executing
    mailbox,       \* Actor.mailbox : VecDeque<Particle>
    blocking,      \* tasks spawned on the blocking pool: particle, runtime, result
    polled,        \* what the last Actor::poll returned
    ingested,      \* number of particles handed to the actor so far
    tx_pc,         \* ChainConnector::send_tx: where each caller stands
    tx_nonce,      \* the nonce each caller read
    tx_nonce_mutex,\* ChainConnector.tx_nonce_mutex: the callers holding its guard
    tx_init_peer_id,\* ParticleParams.init_peer_id of each caller's connector.send_tx
    chain_count,   \* chain: eth_getTransactionCount(address, "pending")
    submitted,     \* chain: nonces of the accepted transactions, in order
    table,         \* libp2p routing table: addresses of the peers it holds
    lib_queries,   \* libp2p: the queries it is running
    lib_events,    \* libp2p: KademliaEvents queued for the next kademlia.poll
    queries,       \* Kademlia.queries
    pending_peers, \* Kademlia.pending_peers
    failed_peers,  \* Kademlia.failed_peers
    now,           \* Instant::now()
    next_id,       \* next QueryId and next oneshot channel
    kad_answered,  \* answers sent on the oneshot outlets by the last step
    kad_cmd,       \* the last Kademlia step
    banned_since,  \* history: when each banned peer's ban was first set
    resolved,      \* the last resolve_contact call: what it was answered and returned
    connections,   \* kademlia_bootstrap: its stream of bootstrap connections
    bootstrapped,  \* history: the bootstrap connections that triggered a bootstrap
    reconnecting,  \* reconnect_bootstraps: the reconnect loops that run
    kademlia_calls,\* the KademliaApi calls made by the last connectivity step
    lifecycle_count,\* number of lifecycle events published so far
    lifecycle_last,\* the lifecycle event the last step published, if any
    cc_init,       \* the last get_cc_init_params call: batches sent, response, result
    ws_client,     \* WsEventSubscription.ws_client: which client it holds (0: built by new)
    sub_pc,        \* where the running subscribe or restart call stands
    sub_elapsed,   \* backoff intervals the running retry has used
    sub_err,       \* outcome of the last attempt inside retry
    sub_result,    \* the last call that returned and what it returned
    particle_outlet,\* ConnectionPoolBehaviour.outlet: the channel to the plumber
    received,      \* the particles the plumber took from the channel, in order
    faases,        \* FaaSBehaviour.faases: the instances at rest, by service id
    faas_calls,    \* FaaSBehaviour.calls : Vec<FaaSCall>
    futures,       \* FaaSBehaviour.futures : service id -> running or finished call
    faas_event,    \* what the last FaaSBehaviour::poll returned
    faas_issued,   \* number of FunctionCalls handed to execute so far
    faas_uuids,    \* number of service ids create_faas has drawn so far
    faas_spawned   \* history: the FaaSCalls a blocking task was spawned for, in order

poolVars == <<contacts, dialing, events, queue, subscribers, answered, chans,
              published, established, swarm_dials, steps, cmd>>
actorVars == <<vm, fut, mailbox, blocking, polled, ingested>>
chainVars == <<tx_pc, tx_nonce, tx_nonce_mutex, tx_init_peer_id, chain_count, submitted>>
kadVars == <<table, lib_queries, lib_events, queries,
             pending_peers, failed_peers, now, next_id, kad_answered,
             kad_cmd, banned_since>>
connVars == <<resolved, connections, bootstrapped, reconnecting, kademlia_calls,
              lifecycle_count, lifecycle_last>>
listenerVars == <<cc_init, ws_client, sub_pc, sub_elapsed, sub_err, sub_result>>
outletVars == <<particle_outlet, received>>
faasVars == <<faases, faas_calls, futures, faas_event, faas_issued, faas_uuids,
              faas_spawned>>
vars == <<poolVars, actorVars, chainVars, kadVars, connVars, listenerVars, outletVars, faasVars>>
nonPoolVars == <<actorVars, chainVars, kadVars, connVars, listenerVars, outletVars, faasVars>>
nonActorVars == <<poolVars, chainVars, kadVars, connVars, listenerVars, outletVars, faasVars>>
nonChainVars == <<poolVars, actorVars, kadVars, connVars, listenerVars, outletVars, faasVars>>
nonKadVars == <<poolVars, actorVars, chainVars, connVars, listenerVars, outletVars, faasVars>>
nonConnVars == <<poolVars, actorVars, chainVars, kadVars, listenerVars, outletVars, faasVars>>
nonListenerVars == <<poolVars, actorVars, chainVars, kadVars, connVars, outletVars, faasVars>>
nonOutletVars == <<poolVars, actorVars, chainVars, kadVars, connVars, listenerVars, faasVars>>
nonFaasVars == <<poolVars, actorVars, chainVars, kadVars, connVars, listenerVars, outletVars>>

\* ---------------------------------------------------------------- helpers
SeqToSet(s) == {s[i] : i \in DOMAIN s}

\* all duplicate-free sequences over the finite set S
RECURSIVE Perms(_)
Perms(S) ==
    IF S = {} THEN {<<>>}
    ELSE UNION {{<<x>> \o t : t \in Perms(S \ {x})} : x \in S}

OrderedSubsets(S) == UNION {Perms(T) : T \in SUBSET S}

Without(f, k) == [x \in (DOMAIN f) \ {k} |-> f[x]]
With(f, k, v) == [x \in (DOMAIN f) \cup {k} |-> IF x = k THEN v ELSE f[x]]

\* the pool together with the channels its sends act on, at the start of a step
PoolState ==
    [contacts |-> contacts, dialing |-> dialing, events |-> events,
     queue |-> queue, subscribers |-> subscribers, answered |-> <<>>,
     chans |-> chans, published |-> published]

Op(name, peer, args) == [op |-> name, peer |-> peer, args |-> args]

SetPool(op, s) ==
    /\ steps < MaxSteps
    /\ steps' = steps + 1
    /\ cmd' = op
    /\ UNCHANGED nonPoolVars
    /\ contacts' = s.contacts
    /\ dialing' = s.dialing
    /\ events' = s.events
    /\ queue' = s.queue
    /\ subscribers' = s.subscribers
    /\ answered' = s.answered
    /\ chans' = s.chans
    /\ published' = s.published

NoContact == [peer_id |-> NoPeer, addresses |-> {}]
NoCommandOut == [kind |-> "none", peer |-> NoPeer, addrs |-> {}]

\* a one-shot channel, created by the caller of a command; it is known by
\* the command it belongs to
NewOut(kind, peer, addrs) == [kind |-> kind, peer |-> peer, addrs |-> addrs]

Answer(w, v, c) == [out |-> w, val |-> v, contact |-> c]

\* oneshot::Sender::send(v).ok()
SendOut(s, w, v) == [s EXCEPT !.answered = Append(@, Answer(w, v, NoContact))]

RECURSIVE SendAll(_, _, _)
SendAll(s, ws, v) ==
    IF ws = <<>> THEN s ELSE SendAll(SendOut(s, Head(ws), v), Tail(ws), v)

SendContact(s, w, c) ==
    [s EXCEPT !.answered =
        Append(@, Answer(w, IF c = NoContact THEN "None" ELSE "Some", c))]

RECURSIVE SendContactAll(_, _, _)
SendContactAll(s, ws, c) ==
    IF ws = <<>> THEN s
    ELSE SendContactAll(SendContact(s, Head(ws), c), Tail(ws), c)

\* ---------------------------------------------------------------- Peer
EmptyPeer ==
    [connected |-> {}, discovered |-> {}, dialing |-> {}, dial_promises |-> <<>>]

PeerConnected(addresses) == [EmptyPeer EXCEPT !.connected = addresses]

PeerDialing(addresses, outlet) ==
    [EmptyPeer EXCEPT !.dialing = addresses, !.dial_promises = <<outlet>>]

addresses(peer) == peer.connected \cup peer.discovered \cup peer.dialing

\* ---------------------------------------------------------------- swarm actions
DialAction(peer, addrs) ==
    [type |-> "Dial", peer |-> peer, addrs |-> addrs,
     particle |-> NoParticle, out |-> NoCommandOut]

CloseAction(peer) ==
    [type |-> "CloseConnection", peer |-> peer, addrs |-> {},
     particle |-> NoParticle, out |-> NoCommandOut]

NotifyAction(peer, particle, out) ==
    [type |-> "NotifyHandler", peer |-> peer, addrs |-> {},
     particle |-> particle, out |-> out]

push_event(s, ev) == [s EXCEPT !.events = Append(@, ev)]

\* ---------------------------------------------------------------- lifecycle
Connected(peer, addrs) == [peer |-> peer, addrs |-> addrs, type |-> "Connected"]
Disconnected(peer, addrs) == [peer |-> peer, addrs |-> addrs, type |-> "Disconnected"]

lifecycle_event_skip(s, event) ==
    LET firstDead ==
            IF \E i \in DOMAIN s.subscribers : ~s.chans[s.subscribers[i]].open
            THEN CHOOSE i \in DOMAIN s.subscribers :
                    /\ ~s.chans[s.subscribers[i]].open
                    /\ \A j \in 1..(i - 1) : s.chans[s.subscribers[j]].open
            ELSE Len(s.subscribers) + 1
        reached == {s.subscribers[i] : i \in 1..(firstDead - 1)}
    IN [s EXCEPT
          !.chans = [c \in DOMAIN @ |->
                       IF c \in reached
                       THEN [@[c] EXCEPT !.inbox = Append(@, event)]
                       ELSE @[c]],
          !.subscribers = SelectSeq(@, LAMBDA c : s.chans[c].open),
          !.published = Append(@, event)]

\* subscribers.retain(|out| out.send(event.clone()).is_ok())
lifecycle_event(s, event) ==
    [s EXCEPT
       !.chans = [c \in DOMAIN @ |->
                    IF c \in SeqToSet(s.subscribers) /\ @[c].open
                    THEN [@[c] EXCEPT !.inbox = Append(@, event)]
                    ELSE @[c]],
       !.subscribers = SelectSeq(@, LAMBDA c : s.chans[c].open),
       !.published = Append(@, event)]

remove_contact_promising(s, peer_id) ==
    IF peer_id \in DOMAIN s.contacts
    THEN LET contact == s.contacts[peer_id]
             s1 == [s EXCEPT !.contacts = Without(@, peer_id)]
             s2 == lifecycle_event(s1, Disconnected(peer_id, addresses(contact)))
         IN SendAll(s2, contact.dial_promises, "true")
    ELSE s

remove_contact(s, peer_id) ==
    IF peer_id \in DOMAIN s.contacts
    THEN LET contact == s.contacts[peer_id]
             s1 == [s EXCEPT !.contacts = Without(@, peer_id)]
             s2 == lifecycle_event(s1, Disconnected(peer_id, addresses(contact)))
         IN SendAll(s2, contact.dial_promises, "false")
    ELSE s

get_contact_impl(s, peer_id) ==
    IF peer_id \in DOMAIN s.contacts
    THEN [peer_id |-> peer_id, addresses |-> addresses(s.contacts[peer_id])]
    ELSE NoContact

cleanup_address(s, peer_id, addr) ==
    LET s1 == IF addr \in DOMAIN s.dialing
              THEN SendContactAll([s EXCEPT !.dialing = Without(@, addr)],
                                  s.dialing[addr], NoContact)
              ELSE s
    IN IF peer_id = NoPeer \/ peer_id \notin DOMAIN s1.contacts
       THEN s1
       ELSE LET old == s1.contacts[peer_id]
                c1 == [old EXCEPT !.connected = @ \ {addr},
                                  !.discovered = @ \ {addr},
                                  !.dialing = @ \ {addr}]
                c2 == IF c1.dialing = {}
                      THEN [c1 EXCEPT !.dial_promises = <<>>]
                      ELSE c1
                s2 == [s1 EXCEPT !.contacts[peer_id] = c2]
                s3 == IF c1.dialing = {}
                      THEN SendAll(s2, c1.dial_promises, "false")
                      ELSE s2
            IN IF c2.connected = {} /\ c2.dialing = {}
               THEN remove_contact(s3, peer_id)
               ELSE s3

RECURSIVE cleanup_addresses(_, _, _)
cleanup_addresses(s, peer_id, addrs) ==
    IF addrs = <<>> THEN s
    ELSE cleanup_addresses(cleanup_address(s, peer_id, Head(addrs)),
                           peer_id, Tail(addrs))

add_connected_address(s, peer_id, maddr) ==
    LET s1 == IF peer_id \in DOMAIN s.contacts
              THEN LET peer == s.contacts[peer_id]
                       p1 == [peer EXCEPT !.dialing = @ \ {maddr},
                                          !.discovered = @ \ {maddr},
                                          !.connected = @ \cup {maddr},
                                          !.dial_promises = <<>>]
                   IN SendAll([s EXCEPT !.contacts[peer_id] = p1],
                              peer.dial_promises, "true")
              ELSE [s EXCEPT !.contacts =
                                With(@, peer_id, PeerConnected({maddr}))]
    IN IF maddr \in DOMAIN s1.dialing
       THEN SendContactAll([s1 EXCEPT !.dialing = Without(@, maddr)],
                           s1.dialing[maddr], get_contact_impl(s1, peer_id))
       ELSE s1

on_connection_established(s, peer_id, multiaddr, failed_addresses) ==
    LET s1 == cleanup_addresses(s, peer_id, failed_addresses)
        s2 == add_connected_address(s1, peer_id, multiaddr)
    IN lifecycle_event(s2, Connected(peer_id, {multiaddr}))

on_connection_closed(s, peer_id, multiaddr, remaining_established) ==
    LET s1 == IF remaining_established = 0
              THEN remove_contact(s, peer_id)
              ELSE s
    IN cleanup_address(s1, peer_id, multiaddr)

\* on_dial_failure without the early return
on_dial_failure_always(s, peer_id, error) ==
    LET s1 == IF error.kind \in {"WrongPeerId", "Transport"}
              THEN cleanup_addresses(s, peer_id, error.addrs)
              ELSE s
    IN IF peer_id # NoPeer THEN remove_contact(s1, peer_id) ELSE s1

\* error: [kind, addrs]; kind is one of
\*   "DialPeerConditionFalse", "WrongPeerId", "Transport", "Other"
on_dial_failure(s, peer_id, error) ==
    IF error.kind = "DialPeerConditionFalse" THEN s
    ELSE LET s1 == IF error.kind \in {"WrongPeerId", "Transport"}
                   THEN cleanup_addresses(s, peer_id, error.addrs)
                   ELSE s
         IN IF peer_id # NoPeer THEN remove_contact(s1, peer_id) ELSE s1

\* ---------------------------------------------------------------- commands
dial(s, address, out) ==
    LET outs_ == IF address \in DOMAIN s.dialing THEN s.dialing[address] ELSE <<>>
    IN push_event([s EXCEPT !.dialing = With(@, address, Append(outs_, out))],
                  DialAction(NoPeer, {address}))

connect(s, new_contact, outlet) ==
    LET peer_id == new_contact.peer_id
        occupied == peer_id \in DOMAIN s.contacts
        known_contact == s.contacts[peer_id]
        not_connected ==
            \E maddr \in new_contact.addresses : maddr \notin known_contact.connected
        new_addrs ==
            {maddr \in new_contact.addresses : maddr \notin known_contact.dialing}
        addrs == IF occupied THEN new_addrs ELSE new_contact.addresses
        s1 == IF occupied
              THEN IF not_connected
                   THEN [s EXCEPT !.contacts[peer_id].dial_promises = Append(@, outlet)]
                   ELSE SendOut(s, outlet, "true")
              ELSE [s EXCEPT !.contacts =
                       With(@, peer_id, PeerDialing(new_contact.addresses, outlet))]
    IN IF addrs # {} THEN push_event(s1, DialAction(peer_id, addrs)) ELSE s1

\* disconnect that also forgets the peer
disconnect_forgetting(s, peer_id, outlet) ==
    SendOut(push_event(remove_contact(s, peer_id), CloseAction(peer_id)), outlet, "true")

disconnect(s, peer_id, outlet) ==
    SendOut(push_event(s, CloseAction(peer_id)), outlet, "true")

is_connected_answer(s, peer_id) ==
    IF peer_id \in DOMAIN s.contacts THEN "true" ELSE "false"

is_connected(s, peer_id, outlet) ==
    SendOut(s, outlet, is_connected_answer(s, peer_id))

send_remote_only(s, to, particle, outlet) ==
    IF to \in DOMAIN s.contacts
    THEN push_event(s, NotifyAction(to, particle, outlet))
    ELSE SendOut(s, outlet, "NotConnected")

send(s, to, particle, outlet) ==
    IF to = LocalPeer
    THEN SendOut([s EXCEPT !.queue = Append(@, particle)], outlet, "Ok")
    ELSE IF to \in DOMAIN s.contacts
         THEN push_event(s, NotifyAction(to, particle, outlet))
         ELSE SendOut(s, outlet, "NotConnected")

add_subscriber(s, outlet) == [s EXCEPT !.subscribers = Append(@, outlet)]

add_discovered_addresses(s, peer_id, addrs) ==
    LET peer == IF peer_id \in DOMAIN s.contacts THEN s.contacts[peer_id]
                ELSE EmptyPeer
    IN [s EXCEPT !.contacts =
           With(@, peer_id, [peer EXCEPT !.discovered = @ \cup addrs])]

\* ---------------------------------------------------------------- pool actions
swarmUnchanged == UNCHANGED <<established, swarm_dials>>

Dial(address) ==
    /\ SetPool(Op("dial", NoPeer, {address}),
               dial(PoolState, address, NewOut("dial", NoPeer, {address})))
    /\ swarmUnchanged

Connect(peer_id, addrs) ==
    /\ SetPool(Op("connect", peer_id, addrs),
               connect(PoolState, [peer_id |-> peer_id, addresses |-> addrs],
                       NewOut("connect", peer_id, addrs)))
    /\ swarmUnchanged

Disconnect(peer_id) ==
    /\ SetPool(Op("disconnect", peer_id, {}),
               disconnect(PoolState, peer_id, NewOut("disconnect", peer_id, {})))
    /\ swarmUnchanged

IsConnected(peer_id) ==
    /\ SetPool(Op("is_connected", peer_id, {}),
               is_connected(PoolState, peer_id, NewOut("is_connected", peer_id, {})))
    /\ swarmUnchanged

Send(to, particle) ==
    /\ SetPool(Op("send", to, {particle}),
               send(PoolState, to, particle, NewOut("send", to, {})))
    /\ swarmUnchanged

\* Command::LifecycleEvents: the caller creates an unbounded channel
LifecycleEvents ==
    /\ SetPool(Op("subscribe", NoPeer, {}), add_subscriber(
           [PoolState EXCEPT !.chans =
               Append(@, [open |-> TRUE, inbox |-> <<>>, since |-> Len(published)])],
           Len(chans) + 1))
    /\ swarmUnchanged

\* the receiving half of a lifecycle channel is dropped
DropSubscriber(c) ==
    /\ c \in DOMAIN chans
    /\ chans[c].open
    /\ SetPool(Op("drop_subscriber", NoPeer, {}),
               [PoolState EXCEPT !.chans[c].open = FALSE])
    /\ swarmUnchanged

AddDiscovered(peer_id, addrs) ==
    /\ SetPool(Op("add_discovered", peer_id, addrs),
               add_discovered_addresses(PoolState, peer_id, addrs))
    /\ swarmUnchanged

\* ---------------------------------------------------------------- swarm
NumEstablished(peer_id) ==
    LET RECURSIVE Sum(_)
        Sum(A) == IF A = {} THEN 0
                  ELSE LET a == CHOOSE x \in A : TRUE
                       IN established[peer_id][a] + Sum(A \ {a})
    IN Sum(Addrs)

RemoveAt(seq, i) == SubSeq(seq, 1, i - 1) \o SubSeq(seq, i + 1, Len(seq))

Attempt(peer, addrs) == [peer |-> peer, addrs |-> addrs]

DialError(kind, addrs) == [kind |-> kind, addrs |-> addrs]

\* ConnectionPoolBehaviour::poll returns the next queued action to the swarm.
\* A Dial with a peer id carries the default condition (peer disconnected);
\* when it is false the swarm reports DialFailure at once.
PollEvent ==
    /\ events # <<>>
    /\ LET ev == Head(events)
           s == [PoolState EXCEPT !.events = Tail(@)]
       IN CASE ev.type = "Dial" /\ ev.peer # NoPeer /\ NumEstablished(ev.peer) > 0 ->
                 /\ SetPool(Op("poll", ev.peer, ev.addrs), on_dial_failure(s, ev.peer,
                                DialError("DialPeerConditionFalse", <<>>)))
                 /\ UNCHANGED swarm_dials
            [] ev.type = "Dial" /\ ~(ev.peer # NoPeer /\ NumEstablished(ev.peer) > 0) ->
                 /\ SetPool(Op("poll", ev.peer, ev.addrs), s)
                 /\ swarm_dials' = Append(swarm_dials, Attempt(ev.peer, ev.addrs))
            [] ev.type = "CloseConnection" ->
                 /\ SetPool(Op("poll", ev.peer, ev.addrs), s)
                 /\ UNCHANGED swarm_dials
            [] ev.type = "NotifyHandler" ->
                 /\ \E status \in IF NumEstablished(ev.peer) > 0
                                  THEN {"Ok", "ProtocolError", "TimedOut"}
                                  ELSE {"Cancelled"} :
                        SetPool(Op("poll", ev.peer, ev.addrs), SendOut(s, ev.out, status))
                 /\ UNCHANGED swarm_dials
    /\ UNCHANGED established

\* another behaviour of the same swarm (Kademlia, identify) starts a dial
ForeignDial(peer_id, addrs) ==
    /\ NumEstablished(peer_id) = 0
    /\ swarm_dials' = Append(swarm_dials, Attempt(peer_id, addrs))
    /\ SetPool(Op("foreign_dial", peer_id, addrs), PoolState)
    /\ UNCHANGED established

Establish(peer_id, addr) ==
    established' = [established EXCEPT ![peer_id][addr] = @ + 1]

\* FromSwarm::ConnectionEstablished for an incoming connection
InboundEstablished(peer_id, addr) ==
    /\ SetPool(Op("connection_established", peer_id, {addr}),
               on_connection_established(PoolState, peer_id, addr, <<>>))
    /\ Establish(peer_id, addr)
    /\ UNCHANGED swarm_dials

\* FromSwarm::ConnectionEstablished for dial attempt i
DialSucceeded(i, peer_id, addr, failed) ==
    /\ i \in DOMAIN swarm_dials
    /\ swarm_dials[i].peer \in {NoPeer, peer_id}
    /\ addr \in swarm_dials[i].addrs
    /\ SeqToSet(failed) \subseteq swarm_dials[i].addrs \ {addr}
    /\ SetPool(Op("connection_established", peer_id, {addr}),
               on_connection_established(PoolState, peer_id, addr, failed))
    /\ Establish(peer_id, addr)
    /\ swarm_dials' = RemoveAt(swarm_dials, i)

\* FromSwarm::DialFailure for dial attempt i
DialFailed(i, error) ==
    /\ i \in DOMAIN swarm_dials
    /\ \/ /\ error.kind = "Transport"
          /\ SeqToSet(error.addrs) = swarm_dials[i].addrs
          /\ Len(error.addrs) = Cardinality(swarm_dials[i].addrs)
       \/ /\ error.kind = "WrongPeerId"
          /\ swarm_dials[i].peer # NoPeer
          /\ Len(error.addrs) = 1
          /\ error.addrs[1] \in swarm_dials[i].addrs
       \/ /\ error.kind = "Other"
          /\ error.addrs = <<>>
    /\ SetPool(Op("dial_failure", swarm_dials[i].peer, SeqToSet(error.addrs)),
               on_dial_failure(PoolState, swarm_dials[i].peer, error))
    /\ swarm_dials' = RemoveAt(swarm_dials, i)
    /\ UNCHANGED established

\* FromSwarm::ConnectionClosed for one established connection
ConnectionClosed(peer_id, addr) ==
    /\ established[peer_id][addr] > 0
    /\ SetPool(Op("connection_closed", peer_id, {addr}),
               on_connection_closed(PoolState, peer_id, addr,
                                    NumEstablished(peer_id) - 1))
    /\ established' = [established EXCEPT ![peer_id][addr] = @ - 1]
    /\ UNCHANGED swarm_dials

DialErrors ==
    {DialError(k, a) : k \in {"Transport", "WrongPeerId", "Other"},
                       a \in OrderedSubsets(Addrs)}

PoolInit ==
    /\ contacts = <<>>
    /\ dialing = <<>>
    /\ events = <<>>
    /\ queue = <<>>
    /\ subscribers = <<>>
    /\ answered = <<>>
    /\ chans = <<>>
    /\ published = <<>>
    /\ established = [p \in RemotePeers |-> [a \in Addrs |-> 0]]
    /\ swarm_dials = <<>>
    /\ steps = 0
    /\ cmd = Op("new", NoPeer, {})

\* ---------------------------------------------------------------- particle outlet
\* outlet.poll_ready: a slot of the channel is reserved for the next particle
poll_ready(o) ==
    IF o.permit THEN "Ok"
    ELSE IF ~o.open THEN "Err"
    ELSE IF Len(o.buf) < OutletCapacity THEN "Ok"
    ELSE "Pending"

\* the loop of poll that sends the newest queued particle first
drain_newest_first(q, o) ==
    IF poll_ready(o) = "Ok" /\ q # <<>>
    THEN [queue |-> SubSeq(q, 1, Len(q) - 1),
          outlet |-> [o EXCEPT !.permit = FALSE,
                               !.buf = IF o.open THEN Append(@, q[Len(q)]) ELSE @]]
    ELSE [queue |-> q, outlet |-> o]

\* the loop of poll: while the outlet is ready, pop the front of the queue and
\* start_send it; stop when the queue is empty or the outlet is not ready
RECURSIVE drain(_, _)
drain(q, o) ==
    IF poll_ready(o) = "Ok"
    THEN IF q # <<>>
         THEN drain(Tail(q),
                    [o EXCEPT !.permit = FALSE,
                              !.buf = IF o.open THEN Append(@, Head(q)) ELSE @])
         ELSE [queue |-> q, outlet |-> [o EXCEPT !.permit = TRUE]]
    ELSE [queue |-> q, outlet |-> o]

\* HandlerMessage::InParticle: a particle that arrived from the network
InParticle(from, particle) ==
    /\ SetPool(Op("in_particle", from, {particle}),
               [PoolState EXCEPT !.queue = Append(@, particle)])
    /\ swarmUnchanged

\* NetworkBehaviour::poll, the part that feeds the outlet
PollOutlet ==
    /\ steps < MaxSteps
    /\ steps' = steps + 1
    /\ cmd' = Op("poll_outlet", NoPeer, {})
    /\ queue' = drain(queue, particle_outlet).queue
    /\ particle_outlet' = drain(queue, particle_outlet).outlet
    /\ answered' = <<>>
    /\ UNCHANGED <<contacts, dialing, events, subscribers, chans, published,
                   established, swarm_dials, received>>
    /\ UNCHANGED <<actorVars, chainVars, kadVars, connVars, listenerVars, faasVars>>

\* the plumber takes the next particle from the channel
Receive ==
    /\ particle_outlet.open
    /\ particle_outlet.buf # <<>>
    /\ received' = Append(received, Head(particle_outlet.buf))
    /\ particle_outlet' = [particle_outlet EXCEPT !.buf = Tail(@)]
    /\ UNCHANGED nonOutletVars

\* the receiving half of the channel is dropped
CloseOutlet ==
    /\ particle_outlet.open
    /\ particle_outlet' = [particle_outlet EXCEPT !.open = FALSE]
    /\ UNCHANGED received
    /\ UNCHANGED nonOutletVars

OutletInit ==
    /\ particle_outlet = [buf |-> <<>>, open |-> TRUE, permit |-> FALSE]
    /\ received = <<>>

OutletNext ==
    \/ \E particle \in Particles : Send(LocalPeer, particle)
    \/ \E p \in RemotePeers, particle \in Particles : InParticle(p, particle)
    \/ PollOutlet
    \/ Receive
    \/ CloseOutlet

PoolNext ==
    \/ \E a \in Addrs : Dial(a)
    \/ \E p \in RemotePeers, as \in (SUBSET Addrs) \ {{}} : Connect(p, as)
    \/ \E p \in RemotePeers : Disconnect(p)
    \/ \E p \in RemotePeers : IsConnected(p)
    \/ \E p \in Peers, particle \in Particles : Send(p, particle)
    \/ LifecycleEvents
    \/ \E c \in DOMAIN chans : DropSubscriber(c)
    \/ \E p \in RemotePeers, as \in (SUBSET Addrs) \ {{}} : AddDiscovered(p, as)
    \/ PollEvent
    \/ \E p \in RemotePeers, as \in (SUBSET Addrs) \ {{}} : ForeignDial(p, as)
    \/ \E p \in RemotePeers, a \in Addrs : InboundEstablished(p, a)
    \/ \E i \in DOMAIN swarm_dials, p \in RemotePeers, a \in Addrs,
          failed \in OrderedSubsets(Addrs) : DialSucceeded(i, p, a, failed)
    \/ \E i \in DOMAIN swarm_dials, e \in DialErrors : DialFailed(i, e)
    \/ \E p \in RemotePeers, a \in Addrs : ConnectionClosed(p, a)

\* ================================================================ actor
\* the index of no task: blocking is indexed from 1
NoTask == 0

\* a particle of the actor's fingerprint; n is the order of arrival
Particle(n, data) == [n |-> n, init_peer_id |-> "client", data |-> data]

Forward(particle, target) == [particle |-> particle, target |-> target]

Pending == [ready |-> FALSE, effects |-> <<>>]
Ready(effects) == [ready |-> TRUE, effects |-> effects]

\* the outcomes of the runtime call, as parse_invoke_result sees them
InvokeResults ==
    {[ok |-> TRUE, data |-> "out", targets |-> ts] :
        ts \in {<<>>, <<"p1">>, <<"p1", "p2">>}}
      \cup {[ok |-> FALSE, data |-> "", targets |-> <<>>]}

execute_effects_silent(particle, result) ==
    IF result.ok
    THEN [i \in DOMAIN result.targets |->
             Forward([particle EXCEPT !.data = result.data], result.targets[i])]
    ELSE <<>>

\* the effects the blocking task builds from the runtime's result
execute_effects(particle, result) ==
    IF result.ok
    THEN [i \in DOMAIN result.targets |->
             Forward([particle EXCEPT !.data = result.data], result.targets[i])]
    ELSE <<Forward([particle EXCEPT !.data =
                       IF particle.data = "object" THEN "object+error"
                       ELSE "error+data"],
                   particle.init_peer_id)>>

\* Actor state as a record, to pass through poll's helpers
ActorState ==
    [vm |-> vm, fut |-> fut, mailbox |-> mailbox, blocking |-> blocking]

\* Actor::execute: spawn_blocking a task that owns the particle and the runtime
execute(a, particle) ==
    [a EXCEPT !.blocking = Append(@, [particle |-> particle, has_vm |-> TRUE,
                                      done |-> FALSE, effects |-> <<>>,
                                      result |-> <<>>]),
              !.fut = Len(a.blocking) + 1,
              !.vm = "Executing"]

execute_next_newest(a) ==
    IF a.mailbox # <<>>
    THEN execute([a EXCEPT !.mailbox = SubSeq(@, 1, Len(@) - 1)],
                 a.mailbox[Len(a.mailbox)])
    ELSE [a EXCEPT !.vm = "Idle", !.fut = NoTask]

\* Actor::execute_next, called with the runtime in hand
execute_next(a) ==
    IF a.mailbox # <<>>
    THEN execute([a EXCEPT !.mailbox = Tail(@)], Head(a.mailbox))
    ELSE [a EXCEPT !.vm = "Idle", !.fut = NoTask]

take_result_kept(a) == a

\* the future of the task is ready: it hands back the runtime (FutResult.vm)
take_result(a) == [a EXCEPT !.blocking[a.fut].has_vm = FALSE]

poll_eager(a) ==
    CASE a.vm = "Idle" -> [actor |-> execute_next(a), effect |-> Pending]
      [] a.vm = "Executing" /\ a.blocking[a.fut].done ->
            [actor |-> execute_next(take_result(a)),
             effect |-> Ready(a.blocking[a.fut].effects)]
      [] a.vm = "Executing" /\ ~a.blocking[a.fut].done ->
            [actor |-> execute_next(a), effect |-> Pending]

\* Actor::poll that does not put a pending future back
poll_losing(a) ==
    CASE a.vm = "Idle" -> [actor |-> execute_next(a), effect |-> Pending]
      [] a.vm = "Executing" /\ a.blocking[a.fut].done ->
            [actor |-> execute_next(take_result(a)),
             effect |-> Ready(a.blocking[a.fut].effects)]
      [] a.vm = "Executing" /\ ~a.blocking[a.fut].done ->
            [actor |-> [a EXCEPT !.vm = "Polling"], effect |-> Pending]
      [] OTHER -> [actor |-> a, effect |-> Pending]

\* Actor::poll
poll(a) ==
    CASE a.vm = "Idle" -> [actor |-> execute_next(a), effect |-> Pending]
      [] a.vm = "Executing" /\ a.blocking[a.fut].done ->
            [actor |-> execute_next(take_result(a)),
             effect |-> Ready(a.blocking[a.fut].effects)]
      [] a.vm = "Executing" /\ ~a.blocking[a.fut].done ->
            [actor |-> a, effect |-> Pending]

SetActor(a) ==
    /\ UNCHANGED nonActorVars
    /\ vm' = a.vm
    /\ fut' = a.fut
    /\ mailbox' = a.mailbox
    /\ blocking' = a.blocking

\* Actor::ingest
Ingest(data) ==
    /\ ingested < MaxIngest
    /\ ingested' = ingested + 1
    /\ SetActor([ActorState EXCEPT
                    !.mailbox = Append(@, Particle(ingested + 1, data))])
    /\ UNCHANGED polled

ActorPoll ==
    /\ SetActor(poll(ActorState).actor)
    /\ polled' = poll(ActorState).effect
    /\ UNCHANGED ingested

\* the blocking task runs the runtime to completion and wakes the actor
TaskCompletes(i, result) ==
    /\ i \in DOMAIN blocking
    /\ ~blocking[i].done
    /\ blocking' = [blocking EXCEPT
                       ![i].done = TRUE,
                       ![i].result = <<result>>,
                       ![i].effects = execute_effects(blocking[i].particle, result)]
    /\ UNCHANGED <<vm, fut, mailbox, polled, ingested>>
    /\ UNCHANGED nonActorVars

\* Actor::new(config, particle): Idle(vm), the first particle ingested
ActorInit ==
    /\ vm = "Idle"
    /\ fut = NoTask
    /\ mailbox \in {<<Particle(1, d)>> : d \in {"object", "string"}}
    /\ blocking = <<>>
    /\ polled = Pending
    /\ ingested = 1

\* vm.call returns, with any result
RuntimeReturns == \E i \in DOMAIN blocking, r \in InvokeResults : TaskCompletes(i, r)

ActorNext ==
    \/ \E d \in {"object", "string"} : Ingest(d)
    \/ ActorPoll
    \/ RuntimeReturns

\* ================================================================ chain connector
Callers == 1..NumCallers

HostId == "host"                     \* ChainConnector.host_id

\* tokio::sync::Mutex::lock().await completes for caller c
can_lock_unguarded(mutex, c) == TRUE

can_lock(mutex, c) == mutex = {}

\* the guard _lock is dropped when send_tx returns, with Ok or through `?`
Return(c) ==
    /\ tx_pc' = [tx_pc EXCEPT ![c] = "idle"]
    /\ tx_nonce_mutex' = tx_nonce_mutex \ {c}

\* a caller inside the node enters send_tx and waits for the mutex
CallSendTx(c) ==
    /\ tx_pc[c] \in {"idle", "rejected"}
    /\ chain_count < MaxNonce
    /\ tx_pc' = [tx_pc EXCEPT ![c] = "lock"]
    /\ tx_init_peer_id' = [tx_init_peer_id EXCEPT ![c] = NoPeer]
    /\ UNCHANGED <<tx_nonce, tx_nonce_mutex, chain_count, submitted>>
    /\ UNCHANGED nonChainVars

\* the builtin without the init_peer_id check
SendTxBuiltin_open(c, init_peer_id) ==
    /\ tx_pc[c] \in {"idle", "rejected"}
    /\ chain_count < MaxNonce
    /\ tx_init_peer_id' = [tx_init_peer_id EXCEPT ![c] = init_peer_id]
    /\ tx_pc' = [tx_pc EXCEPT ![c] = "lock"]
    /\ UNCHANGED <<tx_nonce, tx_nonce_mutex, chain_count, submitted>>
    /\ UNCHANGED nonChainVars

\* connector.send_tx called by a particle: only the host's own particles reach
\* send_tx, any other caller gets Err("Only the root worker can send
\* transactions")
SendTxBuiltin(c, init_peer_id) ==
    /\ tx_pc[c] \in {"idle", "rejected"}
    /\ chain_count < MaxNonce
    /\ tx_init_peer_id' = [tx_init_peer_id EXCEPT ![c] = init_peer_id]
    /\ IF init_peer_id # HostId
       THEN tx_pc' = [tx_pc EXCEPT ![c] = "rejected"]
       ELSE tx_pc' = [tx_pc EXCEPT ![c] = "lock"]
    /\ UNCHANGED <<tx_nonce, tx_nonce_mutex, chain_count, submitted>>
    /\ UNCHANGED nonChainVars

Lock(c) ==
    /\ tx_pc[c] = "lock"
    /\ can_lock(tx_nonce_mutex, c)
    /\ tx_nonce_mutex' = tx_nonce_mutex \cup {c}
    /\ tx_pc' = [tx_pc EXCEPT ![c] = "get_tx_nonce"]
    /\ UNCHANGED <<tx_nonce, tx_init_peer_id, chain_count, submitted>>
    /\ UNCHANGED nonChainVars

\* eth_getTransactionCount(address, "pending")
GetTxNonce(c, ok) ==
    /\ tx_pc[c] = "get_tx_nonce"
    /\ IF ok
       THEN /\ tx_nonce' = [tx_nonce EXCEPT ![c] = chain_count]
            /\ tx_pc' = [tx_pc EXCEPT ![c] = "get_gas_price"]
            /\ UNCHANGED tx_nonce_mutex
       ELSE Return(c) /\ UNCHANGED tx_nonce
    /\ UNCHANGED <<tx_init_peer_id, chain_count, submitted>>
    /\ UNCHANGED nonChainVars

\* eth_gasPrice
GetGasPrice(c, ok) ==
    /\ tx_pc[c] = "get_gas_price"
    /\ IF ok
       THEN tx_pc' = [tx_pc EXCEPT ![c] = "estimate_gas_limit"]
            /\ UNCHANGED tx_nonce_mutex
       ELSE Return(c)
    /\ UNCHANGED <<tx_nonce, tx_init_peer_id, chain_count, submitted>>
    /\ UNCHANGED nonChainVars

\* eth_estimateGas, then to.parse()
EstimateGasLimit(c, ok) ==
    /\ tx_pc[c] = "estimate_gas_limit"
    /\ IF ok
       THEN tx_pc' = [tx_pc EXCEPT ![c] = "send_raw"]
            /\ UNCHANGED tx_nonce_mutex
       ELSE Return(c)
    /\ UNCHANGED <<tx_nonce, tx_init_peer_id, chain_count, submitted>>
    /\ UNCHANGED nonChainVars

\* eth_sendRawTransaction: the chain accepts the transaction when its nonce is
\* the account's next one; the request may also fail before reaching the chain
SendRawTransaction(c, delivered) ==
    /\ tx_pc[c] = "send_raw"
    /\ IF delivered /\ tx_nonce[c] = chain_count
       THEN /\ chain_count' = chain_count + 1
            /\ submitted' = Append(submitted, tx_nonce[c])
       ELSE UNCHANGED <<chain_count, submitted>>
    /\ Return(c)
    /\ UNCHANGED <<tx_nonce, tx_init_peer_id>>
    /\ UNCHANGED nonChainVars

ChainInit ==
    /\ tx_pc = [c \in Callers |-> "idle"]
    /\ tx_nonce = [c \in Callers |-> 0]
    /\ tx_nonce_mutex = {}
    /\ tx_init_peer_id = [c \in Callers |-> NoPeer]
    /\ chain_count = 0
    /\ submitted = <<>>

ChainNext ==
    \/ \E c \in Callers : CallSendTx(c)
    \/ \E c \in Callers, init_peer_id \in {HostId, "p1"} : SendTxBuiltin(c, init_peer_id)
    \/ \E c \in Callers : Lock(c)
    \/ \E c \in Callers, ok \in BOOLEAN : GetTxNonce(c, ok)
    \/ \E c \in Callers, ok \in BOOLEAN : GetGasPrice(c, ok)
    \/ \E c \in Callers, ok \in BOOLEAN : EstimateGasLimit(c, ok)
    \/ \E c \in Callers, delivered \in BOOLEAN : SendRawTransaction(c, delivered)

\* ================================================================ kademlia
KadPeers == {"p1", "p2", "p3"}

\* the address each peer listens on
KadAddr == [p \in KadPeers |-> CASE p = "p1" -> "a1" [] p = "p2" -> "a2" [] OTHER -> "a3"]

\* the k-bucket of the local routing table each peer's key falls in
KBucketOf == [p \in KadPeers |-> IF p = "p3" THEN "far" ELSE "near"]

Ok(addrs) == [kind |-> "Ok", addrs |-> addrs]
Err(kind) == [kind |-> kind, addrs |-> {}]

KadEvent(kind, id, peer, addrs, num_remaining) ==
    [kind |-> kind, id |-> id, peer |-> peer, addrs |-> addrs,
     num_remaining |-> num_remaining]

KadState ==
    [table |-> table, lib_queries |-> lib_queries, lib_events |-> lib_events,
     queries |-> queries, pending_peers |-> pending_peers,
     failed_peers |-> failed_peers, next_id |-> next_id, answered |-> {}]

KadOp(name, peer) == [op |-> name, peer |-> peer]

SetKad(op, k) ==
    /\ kad_cmd' = op
    /\ UNCHANGED nonKadVars
    /\ table' = k.table
    /\ lib_queries' = k.lib_queries
    /\ lib_events' = k.lib_events
    /\ queries' = k.queries
    /\ pending_peers' = k.pending_peers
    /\ failed_peers' = k.failed_peers
    /\ next_id' = k.next_id
    /\ kad_answered' = k.answered
    /\ banned_since' = [p \in {q \in DOMAIN k.failed_peers :
                                  k.failed_peers[q].ban # <<>>} |->
                          IF p \in DOMAIN banned_since THEN banned_since[p] ELSE now]

\* out.send(v).ok()
KadSend(k, out, v) == [k EXCEPT !.answered = @ \cup {[out |-> out, result |-> v]}]

\* libp2p: kademlia.add_address on a bucket with room; the update is reported
\* by a queued RoutingUpdated once the address is new
add_address(k, peer, addr) ==
    LET old == IF peer \in DOMAIN k.table THEN k.table[peer] ELSE {}
    IN  IF addr \in old THEN k
        ELSE [k EXCEPT
                !.table = With(@, peer, old \cup {addr}),
                !.lib_events = Append(@, KadEvent("RoutingUpdated", 0, peer,
                                                  old \cup {addr}, <<>>))]

\* libp2p: kademlia.get_closest_peers
get_closest_peers(k, peer) ==
    [k EXCEPT !.lib_queries = With(@, k.next_id,
                                   [kind |-> "GetClosestPeers", peer |-> peer,
                                    remaining |-> <<>>]),
              !.next_id = @ + 1]

add_contact(k, contact) ==
    LET RECURSIVE go(_, _)
        go(st, as) ==
            IF as = {} THEN st
            ELSE LET a == CHOOSE x \in as : TRUE
                 IN  go(add_address(st, contact.peer_id, a), as \ {a})
    IN  go(k, contact.addresses)

bootstrap(k, outlet) ==
    IF DOMAIN k.table # {}
    THEN LET query_id == k.next_id
         IN  [k EXCEPT
                !.lib_queries = With(@, query_id,
                                     [kind |-> "Bootstrap", peer |-> NoPeer,
                                      remaining |-> <<>>]),
                !.next_id = @ + 1,
                !.queries = With(@, query_id,
                                 [kind |-> "Unit", peer |-> NoPeer, out |-> outlet])]
    ELSE KadSend(k, outlet, Err("NoKnownPeers"))

\* the addresses of every entry of the peer's k-bucket
addresses_of_peer(k, peer_id) ==
    UNION {k.table[q] : q \in {q \in DOMAIN k.table :
                                  KBucketOf[q] = KBucketOf[peer_id]}}

local_lookup(k, peer_id, outlet) ==
    KadSend(k, outlet, Ok(addresses_of_peer(k, peer_id)))

is_banned(k, peer) ==
    /\ peer \in DOMAIN k.failed_peers
    /\ k.failed_peers[peer].ban # <<>>

discover_peer(k, peer, outlet) ==
    LET local == addresses_of_peer(k, peer)
        outlets == IF peer \in DOMAIN k.pending_peers
                   THEN k.pending_peers[peer] ELSE <<>>
        discovering == outlets # <<>>
        pending == [out |-> outlet, created |-> now]
        k1 == [k EXCEPT !.pending_peers = With(@, peer, Append(outlets, pending))]
        query_id == k.next_id
    IN  IF local # {} THEN KadSend(k, outlet, Ok(local))
        ELSE IF is_banned(k, peer) THEN KadSend(k, outlet, Err("PeerBanned"))
        ELSE IF discovering THEN k1
        ELSE [get_closest_peers(k1, peer) EXCEPT
                !.queries = With(@, query_id,
                                 [kind |-> "Peer", peer |-> peer, out |-> 0])]

Kademlia_execute(k, c) ==
    CASE c.name = "AddContact" ->
             add_contact(k, [peer_id |-> c.peer, addresses |-> c.addrs])
      [] c.name = "Bootstrap" -> bootstrap(k, c.out)
      [] c.name = "LocalLookup" -> local_lookup(k, c.peer, c.out)
      [] c.name = "DiscoverPeer" -> discover_peer(k, c.peer, c.out)

RECURSIVE execute_all(_, _)
execute_all(k, cmds) ==
    IF cmds = <<>> THEN k
    ELSE execute_all(Kademlia_execute(k, Head(cmds)), Tail(cmds))

peer_discovered_silent(k, peer, addrs) ==
    [k EXCEPT !.pending_peers = Without(@, peer),
              !.failed_peers = Without(@, peer)]

\* peer_discovered that leaves the failure record
peer_discovered_keeping_failures(k, peer, addrs) ==
    LET pendings == IF peer \in DOMAIN k.pending_peers
                    THEN k.pending_peers[peer] ELSE <<>>
    IN  [k EXCEPT
           !.answered = @ \cup {[out |-> pendings[i].out, result |-> Ok(addrs)] :
                                  i \in DOMAIN pendings},
           !.pending_peers = Without(@, peer)]

peer_discovered(k, peer, addrs) ==
    LET pendings == IF peer \in DOMAIN k.pending_peers
                    THEN k.pending_peers[peer] ELSE <<>>
    IN  [k EXCEPT
           !.answered = @ \cup {[out |-> pendings[i].out, result |-> Ok(addrs)] :
                                  i \in DOMAIN pendings},
           !.pending_peers = Without(@, peer),
           !.failed_peers = Without(@, peer)]

closest_finished(k, id) ==
    IF id \notin DOMAIN k.queries THEN k
    ELSE LET q == k.queries[id]
             k1 == [k EXCEPT !.queries = Without(@, id)]
             found == addresses_of_peer(k1, q.peer)
         IN  CASE q.kind = "Peer" ->
                      IF found # {} THEN peer_discovered(k1, q.peer, found) ELSE k1
               [] q.kind = "Unit" -> KadSend(k1, q.out, Ok({}))

bootstrap_finished(k, id, num_remaining) ==
    IF num_remaining = <<0>> /\ id \in DOMAIN k.queries /\ k.queries[id].kind = "Unit"
    THEN KadSend([k EXCEPT !.queries = Without(@, id)], k.queries[id].out, Ok({}))
    ELSE IF num_remaining = <<0>> /\ id \in DOMAIN k.queries
    THEN [k EXCEPT !.queries = Without(@, id)]
    ELSE k

\* a timeout that is noticed two ticks late
has_timed_out_late(t, timestamp, timeout) == t - timestamp >= timeout + 2

has_timed_out(t, timestamp, timeout) == t - timestamp >= timeout

too_many_failures_strict(failed) == failed.count > PeerFailThreshold

\* failed.count >= config.peer_fail_threshold
too_many_failures(failed) == failed.count >= PeerFailThreshold

\* the part of Kademlia::poll after the commands: expire waiters, count failures,
\* lift and set bans
sweep(k) ==
    IF DOMAIN k.pending_peers = {} /\ DOMAIN k.failed_peers = {} THEN k
    ELSE
    LET expired(p) == {i \in DOMAIN k.pending_peers[p] :
                          has_timed_out(now, k.pending_peers[p][i].created,
                                        QueryTimeout * 2)}
        kept(p) == SelectSeq(k.pending_peers[p],
                             LAMBDA w : ~has_timed_out(now, w.created, QueryTimeout * 2))
        timed_out == {p \in DOMAIN k.pending_peers : expired(p) # {}}
        counted == [p \in DOMAIN k.failed_peers \cup timed_out |->
                      LET f == IF p \in DOMAIN k.failed_peers THEN k.failed_peers[p]
                               ELSE [ban |-> <<>>, count |-> 0]
                      IN  IF p \in timed_out THEN [f EXCEPT !.count = @ + 1] ELSE f]
        unban == {p \in DOMAIN counted :
                     /\ counted[p].ban # <<>>
                     /\ has_timed_out(now, counted[p].ban[1], BanCooldown)}
    IN  [k EXCEPT
           !.answered = @ \cup UNION {{[out |-> k.pending_peers[p][i].out,
                                        result |-> Err("PeerTimedOut")] :
                                          i \in expired(p)} :
                                      p \in DOMAIN k.pending_peers},
           !.pending_peers = [p \in {q \in DOMAIN k.pending_peers : kept(q) # <<>>}
                                |-> kept(p)],
           !.failed_peers = [p \in DOMAIN counted \ unban |->
                               IF too_many_failures(counted[p])
                               THEN [counted[p] EXCEPT !.ban = <<now>>]
                               ELSE counted[p]]]

Kademlia_poll(k, cmds) == sweep(execute_all(k, cmds))

inject_kad_event(k, event) ==
    CASE event.kind = "GetClosestPeers" -> closest_finished(k, event.id)
      [] event.kind = "Bootstrap" ->
             bootstrap_finished(k, event.id, event.num_remaining)
      [] event.kind = "RoutingUpdated" ->
             peer_discovered(k, event.peer, event.addrs)
      [] event.kind \in {"RoutablePeer", "PendingRoutablePeer"} ->
             peer_discovered(k, event.peer, event.addrs)
      [] OTHER -> k

\* ---------------------------------------------------------------- kademlia steps
KadCommand(name, peer, addrs, out) ==
    [name |-> name, peer |-> peer, addrs |-> addrs, out |-> out]

\* the commands KademliaApi can have put on the channel since the last poll;
\* each but AddContact carries a fresh oneshot channel for its answer (the
\* channel of a LocalLookup is used up by the poll that executes it)
KadCommands ==
    {KadCommand("DiscoverPeer", p, {}, next_id) : p \in KadPeers}
      \cup {KadCommand("LocalLookup", p, {}, next_id) : p \in KadPeers}
      \cup {KadCommand("AddContact", p, {KadAddr[p]}, 0) : p \in KadPeers}
      \cup {KadCommand("Bootstrap", NoPeer, {}, next_id)}

\* NetworkBehaviour::poll up to the first kademlia.poll, no command waiting
Poll ==
    /\ UNCHANGED now
    /\ SetKad(KadOp("poll", NoPeer), Kademlia_poll(KadState, <<>>))

\* NetworkBehaviour::poll up to the first kademlia.poll, one command waiting
PollCommand(c) ==
    /\ IF c.name = "AddContact" THEN Len(lib_events) < MaxQueued
                                ELSE next_id < MaxIds
    /\ UNCHANGED now
    /\ SetKad(KadOp(c.name, c.peer),
              Kademlia_poll([KadState EXCEPT
                               !.next_id = IF c.name \in {"DiscoverPeer", "Bootstrap"}
                                           THEN @ + 1 ELSE @], <<c>>))

\* NetworkBehaviour::poll: kademlia.poll answers Ready(GenerateEvent(e))
InjectKadEvent ==
    /\ lib_events # <<>>
    /\ UNCHANGED now
    /\ SetKad(KadOp("inject_kad_event", Head(lib_events).peer),
              inject_kad_event([KadState EXCEPT !.lib_events = Tail(@)],
                               Head(lib_events)))

Tick ==
    /\ now < MaxTime
    /\ now' = now + 1
    /\ SetKad(KadOp("tick", NoPeer), KadState)

\* libp2p: a get_closest_peers query ends, with peers or by its timeout
QueryFinished(id) ==
    /\ id \in DOMAIN lib_queries
    /\ lib_queries[id].kind = "GetClosestPeers"
    /\ Len(lib_events) < MaxQueued
    /\ UNCHANGED now
    /\ SetKad(KadOp("query_finished", lib_queries[id].peer),
              [KadState EXCEPT
                 !.lib_queries = Without(@, id),
                 !.lib_events = Append(@, KadEvent("GetClosestPeers", id,
                                                   lib_queries[id].peer, {}, <<>>))])

\* libp2p: one lookup of a bootstrap ends; the first one fixes the buckets to
\* refresh, each later one refreshes one bucket
BootstrapProgressed(id, ok, buckets) ==
    /\ id \in DOMAIN lib_queries
    /\ lib_queries[id].kind = "Bootstrap"
    /\ Len(lib_events) < MaxQueued
    /\ UNCHANGED now
    /\ LET first == lib_queries[id].remaining = <<>>
           len == IF first THEN buckets ELSE lib_queries[id].remaining[1]
           num_remaining == IF ok THEN <<len>>
                            ELSE IF first THEN <<>>
                            ELSE IF len > 0 THEN <<len - 1>> ELSE <<0>>
           last == IF ok \/ ~first THEN len = 0 ELSE TRUE
       IN  /\ first \/ buckets = 0
           /\ SetKad(KadOp("bootstrap_progressed", NoPeer),
                     [KadState EXCEPT
                        !.lib_queries =
                            IF last THEN Without(@, id)
                            ELSE [@ EXCEPT ![id].remaining = <<len - 1>>],
                        !.lib_events = Append(@, KadEvent("Bootstrap", id, NoPeer,
                                                          {}, num_remaining))])

\* libp2p: a connected peer enters the routing table
RoutingUpdated(peer) ==
    /\ peer \notin DOMAIN table
    /\ Len(lib_events) < MaxQueued
    /\ UNCHANGED now
    /\ SetKad(KadOp("routing_updated", peer),
              add_address(KadState, peer, KadAddr[peer]))

\* libp2p: a connected peer whose bucket is full stays out of the routing table
RoutablePeer(peer, pending) ==
    /\ peer \notin DOMAIN table
    /\ Len(lib_events) < MaxQueued
    /\ UNCHANGED now
    /\ SetKad(KadOp("routable_peer", peer),
              [KadState EXCEPT
                 !.lib_events = Append(@, KadEvent(IF pending THEN "PendingRoutablePeer"
                                                   ELSE "RoutablePeer",
                                                   0, peer, {KadAddr[peer]}, <<>>))])

KadInit ==
    /\ table = <<>>
    /\ lib_queries = <<>>
    /\ lib_events = <<>>
    /\ queries = <<>>
    /\ pending_peers = <<>>
    /\ failed_peers = <<>>
    /\ now = 0
    /\ next_id = 1
    /\ kad_answered = {}
    /\ kad_cmd = KadOp("new", NoPeer)
    /\ banned_since = <<>>

\* the commands that look peers up, and those that fill the routing table and
\* bootstrap it
LookupCommands == {c \in KadCommands : c.name # "Bootstrap"}
TableCommands == {c \in KadCommands : c.name \in {"AddContact", "Bootstrap"}}

\* peer discovery: discover_peer, its queries, the clock and the sweep
KadNext ==
    \/ Poll
    \/ \E c \in LookupCommands : PollCommand(c)
    \/ InjectKadEvent
    \/ Tick
    \/ \E id \in DOMAIN lib_queries : QueryFinished(id)
    \/ \E p \in KadPeers : RoutingUpdated(p)
    \/ \E p \in KadPeers, pending \in BOOLEAN : RoutablePeer(p, pending)

\* libp2p: every lookup of a running bootstrap ends, by its result or its timeout
BootstrapProgress ==
    \E id \in DOMAIN lib_queries, ok \in BOOLEAN, n \in 0..MaxRefresh :
        BootstrapProgressed(id, ok, n)

\* the life of the waiters of one target of discover_peer: calls, query
\* results, the target entering the routing table, the clock and the sweep
DiscoverTarget == "p1"

DiscoverNext ==
    \/ Poll
    \/ PollCommand(KadCommand("DiscoverPeer", DiscoverTarget, {}, next_id))
    \/ InjectKadEvent
    \/ Tick
    \/ \E id \in DOMAIN lib_queries : QueryFinished(id)
    \/ RoutingUpdated(DiscoverTarget)

\* bootstrap: the routing table is filled and bootstrap queries run
BootNext ==
    \/ Poll
    \/ \E c \in TableCommands : PollCommand(c)
    \/ InjectKadEvent
    \/ BootstrapProgress
    \/ \E p \in KadPeers : RoutingUpdated(p)

\* ================================================================ connectivity
\* Connectivity.bootstrap_nodes and Connectivity.bootstrap_frequency
BootstrapNodes == {"a1"}
BootstrapFrequency == 2

\* reconnect_bootstraps: `delta` and `max`, in seconds
ReconnectDelta == 5
ReconnectMax == 60

Contact(peer_id, addrs) == [peer_id |-> peer_id, addresses |-> addrs]

NoEvent == [peer |-> NoPeer, addrs |-> {}, type |-> "none"]

\* Connectivity::resolve_contact, given what get_contact, discover_peer and
\* connect answer; `calls` are the calls it makes
resolve_contact(target, got, discovered, connected) ==
    IF got # NoContact
    THEN [contact |-> got, calls |-> <<"get_contact">>]
    ELSE IF discovered.kind = "Ok" /\ discovered.addrs # {}
    THEN [contact |-> Contact(target, discovered.addrs),
          calls |-> <<"get_contact", "discover_peer", "connect">>]
    ELSE [contact |-> NoContact, calls |-> <<"get_contact", "discover_peer">>]

ResolveContact(target, got, discovered, connected) ==
    /\ resolved' =
           LET r == resolve_contact(target, got, discovered, connected)
           IN  [target |-> target, got |-> got,
                discovered |-> IF Len(r.calls) >= 2 THEN <<discovered>> ELSE <<>>,
                connected |-> IF Len(r.calls) >= 3 THEN <<connected>> ELSE <<>>,
                result |-> r.contact]
    /\ kademlia_calls' = <<>>
    /\ lifecycle_last' = NoEvent
    /\ UNCHANGED <<connections, bootstrapped, reconnecting, lifecycle_count>>
    /\ UNCHANGED nonConnVars

\* the pool publishes a lifecycle event; the filters of kademlia_bootstrap
\* and of reconnect_bootstraps see it
LifecycleEvent(e) ==
    LET bs == e.addrs \cap BootstrapNodes
        redial == IF e.type = "Disconnected" THEN bs ELSE {}
    IN  /\ lifecycle_count < MaxLifecycle
        /\ Len(reconnecting) + Cardinality(redial) <= MaxReconnects
        /\ lifecycle_count' = lifecycle_count + 1
        /\ lifecycle_last' = e
        /\ connections' =
               IF e.type = "Connected" /\ bs # {}
               THEN [connections EXCEPT !.queued = Append(@, Contact(e.peer, e.addrs))]
               ELSE connections
        /\ reconnecting' =
               reconnecting \o [i \in 1..Cardinality(redial) |->
                                  [addr |-> (CHOOSE s \in Perms(redial) : TRUE)[i],
                                   delay |-> 0,
                                   pc |-> "dial"]]
        /\ kademlia_calls' = <<>>
        /\ UNCHANGED <<resolved, bootstrapped>>
        /\ UNCHANGED nonConnVars

\* kademlia_bootstrap: the for_each body on the next bootstrap connection, up
\* to the await of kademlia.bootstrap()
KademliaBootstrap ==
    /\ ~connections.waiting
    /\ connections.queued # <<>>
    /\ LET n == connections.n
           contact == Head(connections.queued)
           run == n % BootstrapFrequency = 0
       IN  /\ connections' = [queued |-> Tail(connections.queued), n |-> n + 1,
                              waiting |-> run]
           /\ bootstrapped' = IF run THEN bootstrapped \cup {n + 1} ELSE bootstrapped
           /\ kademlia_calls' =
                  IF run THEN <<[name |-> "add_contact", contact |-> contact],
                                [name |-> "bootstrap", contact |-> NoContact]>>
                  ELSE <<>>
    /\ lifecycle_last' = NoEvent
    /\ UNCHANGED <<resolved, reconnecting, lifecycle_count>>
    /\ UNCHANGED nonConnVars

\* kademlia.bootstrap() answers, Ok or Err: both are only logged
BootstrapAnswered ==
    /\ connections.waiting
    /\ connections' = [connections EXCEPT !.waiting = FALSE]
    /\ kademlia_calls' = <<>>
    /\ lifecycle_last' = NoEvent
    /\ UNCHANGED <<resolved, bootstrapped, reconnecting, lifecycle_count>>
    /\ UNCHANGED nonConnVars

Reconnect_once(i, contact) ==
    /\ i \in DOMAIN reconnecting
    /\ reconnecting[i].pc = "dial"
    /\ kademlia_calls' = IF contact # NoContact
                         THEN <<[name |-> "add_contact", contact |-> contact]>>
                         ELSE <<>>
    /\ reconnecting' = [reconnecting EXCEPT ![i].delay = 0, ![i].pc = "done"]
    /\ lifecycle_last' = NoEvent
    /\ UNCHANGED <<resolved, connections, bootstrapped, lifecycle_count>>
    /\ UNCHANGED nonConnVars

\* reconnect: pool.dial(addr) answers; Some(contact) ends the loop after
\* kademlia.add_contact, None makes the loop sleep
Reconnect(i, contact) ==
    /\ i \in DOMAIN reconnecting
    /\ reconnecting[i].pc = "dial"
    /\ IF contact # NoContact
       THEN /\ kademlia_calls' = <<[name |-> "add_contact", contact |-> contact]>>
            /\ reconnecting' = [reconnecting EXCEPT ![i].delay = 0, ![i].pc = "done"]
       ELSE /\ kademlia_calls' = <<>>
            /\ reconnecting' =
                   [reconnecting EXCEPT
                      ![i].delay = IF @ + ReconnectDelta < ReconnectMax
                                   THEN @ + ReconnectDelta ELSE ReconnectMax,
                      ![i].pc = "sleep"]
    /\ lifecycle_last' = NoEvent
    /\ UNCHANGED <<resolved, connections, bootstrapped, lifecycle_count>>
    /\ UNCHANGED nonConnVars

\* sleep(delay) is over
Slept(i) ==
    /\ i \in DOMAIN reconnecting
    /\ reconnecting[i].pc = "sleep"
    /\ reconnecting' = [reconnecting EXCEPT ![i].pc = "dial"]
    /\ kademlia_calls' = <<>>
    /\ lifecycle_last' = NoEvent
    /\ UNCHANGED <<resolved, connections, bootstrapped, lifecycle_count>>
    /\ UNCHANGED nonConnVars

\* Connectivity::start: reconnect_bootstraps dials every bootstrap node,
\* kademlia_bootstrap waits for connections
ConnInit ==
    /\ resolved = [target |-> NoPeer, got |-> NoContact, discovered |-> <<>>,
                   connected |-> <<>>, result |-> NoContact]
    /\ connections = [queued |-> <<>>, n |-> 0, waiting |-> FALSE]
    /\ bootstrapped = {}
    /\ reconnecting = [i \in 1..Cardinality(BootstrapNodes) |->
                          [addr |-> (CHOOSE s \in Perms(BootstrapNodes) : TRUE)[i],
                           delay |-> 0,
                           pc |-> "dial"]]
    /\ kademlia_calls = <<>>
    /\ lifecycle_count = 0
    /\ lifecycle_last = NoEvent

ConnNext ==
    \/ \E got \in {NoContact, Contact("p1", {"a1"})},
          discovered \in {Ok({}), Ok({"a1"}), Err("PeerTimedOut"), Err("PeerBanned")},
          connected \in BOOLEAN : ResolveContact("p1", got, discovered, connected)
    \/ \E addr \in Addrs : LifecycleEvent(Connected("p1", {addr}))
    \/ \E addr \in Addrs : LifecycleEvent(Disconnected("p1", {addr}))
    \/ KademliaBootstrap
    \/ BootstrapAnswered
    \/ \E i \in DOMAIN reconnecting, addr \in Addrs :
          Reconnect(i, Contact("p1", {addr}))
    \/ \E i \in DOMAIN reconnecting : Reconnect(i, NoContact)
    \/ \E i \in DOMAIN reconnecting : Slept(i)

\* ================================================================ chain listener
\* the eth_calls get_cc_init_params inserts into its batch, in insertion order
InitParamsBatch ==
    <<"difficulty", "init_timestamp", "global_nonce", "current_epoch", "epoch_duration">>

\* the fields of CCInitParams in the order their results are taken (swapped)
CCInitParamsFields_swapped ==
    <<"difficulty", "global_nonce", "init_timestamp", "current_epoch", "epoch_duration">>

\* the fields of CCInitParams in the order their results are taken from the
\* response with results.next()
CCInitParamsFields ==
    <<"difficulty", "init_timestamp", "global_nonce", "current_epoch", "epoch_duration">>

\* one item of a batch response: a hex string, a string that is no hex, or an
\* error object
RpcItems ==
    {[ok |-> TRUE, value |-> "0x01"], [ok |-> TRUE, value |-> "0x02"],
     [ok |-> TRUE, value |-> "zz"], [ok |-> FALSE, value |-> "error"]}

\* what the node gets for a batch: the request failed, or some items came back
BatchResponses ==
    {[delivered |-> FALSE, items |-> <<>>]} \cup
    {[delivered |-> TRUE, items |-> items] :
        items \in UNION {[1..n -> RpcItems] : n \in 0..Len(InitParamsBatch)}}

\* decode_bytes / decode_uint of a returned hex string: <<value>>, or <<>> when
\* the string does not decode
decode(hex) ==
    IF hex = "0x01" THEN <<1>> ELSE IF hex = "0x02" THEN <<2>> ELSE <<>>

get_cc_init_params(resp) ==
    IF ~resp.delivered THEN [kind |-> "Err", msg |-> "batch_request"]
    ELSE IF \E i \in DOMAIN resp.items : ~resp.items[i].ok
    THEN [kind |-> "Err", msg |-> "Some request failed in a batch"]
    ELSE LET results == resp.items
             \* the positions whose results.next() or decode fails
             bad == {i \in DOMAIN CCInitParamsFields :
                        IF i > Len(results) THEN TRUE
                        ELSE decode(results[i].value) = <<>>}
             first == CHOOSE i \in bad : \A j \in bad : i <= j
         IN  IF bad = {}
             THEN [kind |-> "Ok",
                   params |-> [f \in SeqToSet(CCInitParamsFields) |->
                       decode(results[CHOOSE i \in DOMAIN CCInitParamsFields :
                                         CCInitParamsFields[i] = f].value)[1]]]
             ELSE IF first > Len(results)
             THEN [kind |-> "Err", msg |-> "No response", field |-> CCInitParamsFields[first]]
             ELSE [kind |-> "Err", msg |-> "decode", field |-> CCInitParamsFields[first]]

\* one call of get_cc_init_params: a single batch_request, then the decoding
GetCcInitParams(resp) ==
    /\ cc_init' = [batches |-> <<InitParamsBatch>>, response |-> resp,
                   result |-> get_cc_init_params(resp)]
    /\ UNCHANGED <<ws_client, sub_pc, sub_elapsed, sub_err, sub_result>>
    /\ UNCHANGED nonListenerVars

subVars == <<ws_client, sub_pc, sub_elapsed, sub_err, sub_result>>

Returned(op, kind) == [op |-> op, kind |-> kind]

\* ExponentialBackoff::default().next_backoff(): the next interval, none once
\* max_elapsed_time (15 minutes by default) has passed
next_backoff(elapsed) == IF elapsed < MaxElapsedTime THEN <<elapsed + 1>> ELSE <<>>

\* the caller of subscribe answers a RestartNeeded error with restart
must_restart(result) == result = Returned("subscribe", "RestartNeeded")

\* a subscription method (new_heads, unit_activated, ...) calls subscribe
Subscribe ==
    /\ sub_pc = "idle"
    /\ ~must_restart(sub_result)
    /\ sub_pc' = "subscribe"
    /\ sub_elapsed' = 0
    /\ sub_err' = "none"
    /\ UNCHANGED <<ws_client, sub_result, cc_init>>
    /\ UNCHANGED nonListenerVars

\* one run of the retried closure: ws_client.subscribe("eth_subscribe", ...)
\* answers a subscription or an error; RestartNeeded is made Permanent, every
\* other error transient
SubscribeAttempt(outcome) ==
    /\ sub_pc = "subscribe"
    /\ sub_err' = outcome
    /\ IF outcome = "Ok" \/ outcome = "RestartNeeded"
       THEN /\ sub_pc' = "idle"
            /\ sub_result' = Returned("subscribe", outcome)
            /\ UNCHANGED sub_elapsed
       ELSE IF next_backoff(sub_elapsed) # <<>>
       THEN /\ sub_pc' = "subscribe_sleep"
            /\ sub_elapsed' = next_backoff(sub_elapsed)[1]
            /\ UNCHANGED sub_result
       ELSE /\ sub_pc' = "idle"
            /\ sub_result' = Returned("subscribe", outcome)
            /\ UNCHANGED sub_elapsed
    /\ UNCHANGED <<ws_client, cc_init>>
    /\ UNCHANGED nonListenerVars

\* the sleep between two attempts of a retry is over
BackoffDone ==
    /\ sub_pc \in {"subscribe_sleep", "create_sleep"}
    /\ sub_pc' = IF sub_pc = "subscribe_sleep" THEN "subscribe" ELSE "create_ws_client"
    /\ UNCHANGED <<ws_client, sub_elapsed, sub_err, sub_result, cc_init>>
    /\ UNCHANGED nonListenerVars

\* restart(): create_ws_client starts
Restart ==
    /\ sub_pc = "idle"
    /\ ws_client < MaxRestarts
    /\ sub_pc' = "create_ws_client"
    /\ sub_elapsed' = 0
    /\ sub_err' = "none"
    /\ UNCHANGED <<ws_client, sub_result, cc_init>>
    /\ UNCHANGED nonListenerVars

\* one run of the closure of create_ws_client: WsClientBuilder::build; every
\* error is transient; restart stores the client it got
CreateWsClient(built) ==
    /\ sub_pc = "create_ws_client"
    /\ sub_err' = IF built THEN "Ok" ELSE "Other"
    /\ IF built
       THEN /\ ws_client' = ws_client + 1
            /\ sub_pc' = "idle"
            /\ sub_result' = Returned("restart", "Ok")
            /\ UNCHANGED sub_elapsed
       ELSE IF next_backoff(sub_elapsed) # <<>>
       THEN /\ sub_pc' = "create_sleep"
            /\ sub_elapsed' = next_backoff(sub_elapsed)[1]
            /\ UNCHANGED <<ws_client, sub_result>>
       ELSE /\ sub_pc' = "idle"
            /\ sub_result' = Returned("restart", "Other")
            /\ UNCHANGED <<ws_client, sub_elapsed>>
    /\ UNCHANGED cc_init
    /\ UNCHANGED nonListenerVars

ListenerInit ==
    /\ cc_init = [batches |-> <<>>, response |-> [delivered |-> FALSE, items |-> <<>>],
                  result |-> [kind |-> "none"]]
    /\ ws_client = 0
    /\ sub_pc = "idle"
    /\ sub_elapsed = 0
    /\ sub_err = "none"
    /\ sub_result = Returned("new", "Ok")

InitParamsNext ==
    \/ \E resp \in BatchResponses : GetCcInitParams(resp)

SubscriptionNext ==
    \/ Subscribe
    \/ \E outcome \in {"Ok", "RestartNeeded", "Other"} : SubscribeAttempt(outcome)
    \/ BackoffDone
    \/ Restart
    \/ \E built \in BOOLEAN : CreateWsClient(built)

\* ================================================================ FaaS behaviour
\* the service ids Uuid::new_v4 draws, in the order it draws them, and one id
\* no instance was ever created with
NoService == 0
ServiceIds == 1..MaxServices
UnknownService == MaxServices + 1

\* FaaSCall::Call and FaaSCall::Create; `call` stands for the FunctionCall
FaaSCall(service_id, call) ==
    [kind |-> "Call", service_id |-> service_id, modules |-> "none", call |-> call]

FaaSCreate(module_names, call) ==
    [kind |-> "Create", service_id |-> NoService, modules |-> module_names,
     call |-> call]

is_create(c) == c.kind = "Create"

\* OutEvent = (FunctionCall, Result<CallResult>), or Poll::Pending
FaaSEvent(call, result, service_id) ==
    [call |-> call, result |-> result, service_id |-> service_id]

NoFaaSEvent == FaaSEvent(0, "Pending", NoService)

\* the future stored for a service id: the call it belongs to, whether it is
\* ready, and its CallResult
Fut(c, done, result) == [call |-> c, done |-> done, result |-> result]

FaaSState ==
    [faases |-> faases, calls |-> faas_calls, futures |-> futures,
     event |-> NoFaaSEvent, uuids |-> faas_uuids, spawned |-> faas_spawned]

SetFaaS(f) ==
    /\ faases' = f.faases
    /\ faas_calls' = f.calls
    /\ futures' = f.futures
    /\ faas_event' = f.event
    /\ faas_uuids' = f.uuids
    /\ faas_spawned' = f.spawned
    /\ UNCHANGED nonFaasVars

\* FluenceFaaS::with_module_names fails for a module the config does not hold
create_faas_ok(module_names) == module_names = "known"

\* the partition in poll: work for which no future is stored
is_new_work(f, c) == is_create(c) \/ c.service_id \notin DOMAIN f.futures

\* the FaaSCall::Call arm of execute_calls: take the instance out of faases and
\* spawn the blocking task, or fail with NoSuchInstance
execute_call(f, c) ==
    IF c.service_id \in f.faases
    THEN [f EXCEPT !.faases = @ \ {c.service_id},
                   !.futures = With(@, c.service_id, Fut(c.call, FALSE, "none")),
                   !.spawned = Append(@, c)]
    ELSE [f EXCEPT !.event = FaaSEvent(c.call, "NoSuchInstance", c.service_id)]

\* the FaaSCall::Create arm of execute_calls: a ready future under a new id
execute_create(f, c) ==
    IF create_faas_ok(c.modules)
    THEN [f EXCEPT !.uuids = @ + 1,
                   !.futures = With(@, f.uuids + 1,
                                    Fut(c.call, TRUE, "FaaSCreated"))]
    ELSE [f EXCEPT !.event = FaaSEvent(c.call, "FaaS", NoService)]

\* execute_calls: try_fold over the new work, stopping at the first error; the
\* work that was not reached goes back to the queue
RECURSIVE execute_calls(_, _)
execute_calls(f, new_work) ==
    IF new_work = <<>> THEN f
    ELSE LET c == Head(new_work)
             f1 == IF is_create(c) THEN execute_create(f, c) ELSE execute_call(f, c)
         IN  IF f1.event # NoFaaSEvent
             THEN [f1 EXCEPT !.calls = @ \o Tail(new_work)]
             ELSE execute_calls(f1, Tail(new_work))

\* FaaSBehaviour::poll when the future of service id `key` is the first one
\* found ready: the instance goes back into faases, the result is returned
poll_ready_future(f, key) ==
    [f EXCEPT !.futures = Without(@, key),
              !.faases = @ \cup {key},
              !.event = FaaSEvent(f.futures[key].call, f.futures[key].result, key)]

\* FaaSBehaviour::poll when no future is ready: partition the queue, keep the
\* busy calls, execute the new work
poll_new_work(f) ==
    LET new_work == SelectSeq(f.calls, LAMBDA c : is_new_work(f, c))
        busy == SelectSeq(f.calls, LAMBDA c : ~is_new_work(f, c))
    IN  execute_calls([f EXCEPT !.calls = busy], new_work)

\* FaaSBehaviour::execute
FaaSExecute(kind, service_id, module_names) ==
    /\ faas_issued < MaxCalls
    /\ kind = "Create" =>
          Cardinality({i \in DOMAIN faas_calls : is_create(faas_calls[i])})
              + faas_uuids < MaxServices
    /\ faas_issued' = faas_issued + 1
    /\ SetFaaS([FaaSState EXCEPT
                  !.calls = Append(@, IF kind = "Create"
                                      THEN FaaSCreate(module_names, faas_issued + 1)
                                      ELSE FaaSCall(service_id, faas_issued + 1))])

\* FaaSBehaviour::poll; the HashMap is iterated in an arbitrary order, so any
\* ready future can be the one that is found
FaaSPoll ==
    /\ IF \E key \in DOMAIN futures : futures[key].done
       THEN \E key \in DOMAIN futures :
               /\ futures[key].done
               /\ SetFaaS(poll_ready_future(FaaSState, key))
       ELSE SetFaaS(poll_new_work(FaaSState))
    /\ UNCHANGED faas_issued

\* the blocking task: call_module returns, Ok or Err, and the waker is called
CallModuleReturns(key, result) ==
    /\ key \in DOMAIN futures
    /\ ~futures[key].done
    /\ SetFaaS([FaaSState EXCEPT !.futures[key].done = TRUE,
                                 !.futures[key].result = result,
                                 !.event = faas_event])
    /\ UNCHANGED faas_issued

\* FaaSBehaviour::new
FaaSInit ==
    /\ faases = {}
    /\ faas_calls = <<>>
    /\ futures = <<>>
    /\ faas_event = NoFaaSEvent
    /\ faas_issued = 0
    /\ faas_uuids = 0
    /\ faas_spawned = <<>>

BlockingTaskReturns ==
    \E key \in ServiceIds, result \in {"Returned", "FaaS"} :
        CallModuleReturns(key, result)

FaaSNext ==
    \/ \E module_names \in {"known", "unknown"} :
          FaaSExecute("Create", NoService, module_names)
    \/ \E service_id \in ServiceIds \cup {UnknownService} :
          FaaSExecute("Call", service_id, "none")
    \/ FaaSPoll
    \/ BlockingTaskReturns

\* ================================================================ specifications
Init ==
    PoolInit /\ ActorInit /\ ChainInit /\ KadInit /\ ConnInit /\ ListenerInit /\ OutletInit
      /\ FaaSInit

PoolSpec == Init /\ [][PoolNext]_vars

ActorSpec == Init /\ [][ActorNext]_vars

\* the actor keeps being polled (every ingest and every finished task wakes
\* it) and the runtime call returns
ActorFairSpec == ActorSpec /\ WF_vars(ActorPoll) /\ WF_vars(RuntimeReturns)

ChainSpec == Init /\ [][ChainNext]_vars

KadSpec == Init /\ [][KadNext]_vars

BootSpec == Init /\ [][BootNext]_vars

ConnSpec == Init /\ [][ConnNext]_vars

InitParamsSpec == Init /\ [][InitParamsNext]_vars

SubscriptionSpec == Init /\ [][SubscriptionNext]_vars

OutletSpec == Init /\ [][OutletNext]_vars

FaaSSpec == Init /\ [][FaaSNext]_vars

\* the swarm keeps polling the behaviour (execute and every finished task wake
\* it) and call_module returns
FaaSFairSpec == FaaSSpec /\ WF_vars(FaaSPoll) /\ WF_vars(BlockingTaskReturns)

\* the swarm keeps polling the behaviour (its timer wakes it after every
\* min(query_timeout, ban_cooldown)) and time passes
DiscoverFairSpec ==
    Init /\ [][DiscoverNext]_vars /\ WF_vars(Poll) /\ WF_vars(Tick)

\* the swarm keeps polling the behaviour, which hands every queued libp2p event
\* to inject_kad_event, and libp2p ends every lookup it started
BootFairSpec ==
    BootSpec /\ WF_vars(Poll) /\ WF_vars(InjectKadEvent) /\ WF_vars(BootstrapProgress)

\* ================================================================ pool claims
AnswersOf(kind) == {i \in DOMAIN answered : answered[i].out.kind = kind}

\* C1: in every reachable state of the pool, for every peer record the sets
\* connected, dialing and discovered are pairwise disjoint.
C1_AddressSetsDisjoint ==
    \A p \in DOMAIN contacts :
        /\ contacts[p].connected \cap contacts[p].dialing = {}
        /\ contacts[p].connected \cap contacts[p].discovered = {}
        /\ contacts[p].dialing \cap contacts[p].discovered = {}

\* Dial actions for address a without a peer id that the pool has emitted and
\* that have not completed: queued for the swarm or in flight inside it
ReachAttempts(a) ==
    Cardinality({i \in DOMAIN events : events[i] = DialAction(NoPeer, {a})})
      + Cardinality({i \in DOMAIN swarm_dials : swarm_dials[i] = Attempt(NoPeer, {a})})

\* C2: however many dial(a) calls wait for the reach of address a, the pool has
\* emitted one Dial action for a, not one per call.
C2_OneDialPerAddress ==
    \A a \in DOMAIN dialing : ReachAttempts(a) <= 1

\* C6: whenever connect(c) answers true, is_connected(c.peer_id) executed next
\* on the pool answers true.
C6_ConnectTrueThenIsConnected ==
    \A i \in AnswersOf("connect") :
        answered[i].val = "true" =>
            is_connected_answer(PoolState, answered[i].out.peer) = "true"

\* a connect waiter that had to wait for a dial was answered true
C6_Witness ==
    /\ cmd.op = "connection_established"
    /\ \E i \in AnswersOf("connect") : answered[i].val = "true"

\* C7: after disconnect(p) has answered, is_connected(p) executed next on the
\* pool answers false.
C7_DisconnectThenNotConnected ==
    \A i \in AnswersOf("disconnect") :
        is_connected_answer(PoolState, answered[i].out.peer) = "false"

HasConnection(p) == p \in DOMAIN contacts /\ contacts[p].connected # {}

\* C8: send to a remote peer to which no connection exists answers NotConnected
\* and hands nothing to the network handler (a send that hands the particle to
\* the handler leaves the waiter unanswered by that step).
C8_SendNeedsConnection ==
    \A p \in RemotePeers :
        (cmd.op = "send" /\ cmd.peer = p /\ ~HasConnection(p)) =>
            answered = <<Answer(NewOut("send", p, {}), "NotConnected", NoContact)>>

\* C9: send to the local peer id appends the particle to the local queue,
\* answers Ok, emits no network action, publishes no lifecycle event and leaves
\* all peer records unchanged.
C9_LocalSendStaysLocal ==
    [][(cmd'.op = "send" /\ cmd'.peer = LocalPeer) =>
          /\ \E x \in Particles : cmd'.args = {x} /\ queue' = Append(queue, x)
          /\ answered' = <<Answer(NewOut("send", LocalPeer, {}), "Ok", NoContact)>>
          /\ events' = events
          /\ published' = published
          /\ contacts' = contacts
          /\ dialing' = dialing
          /\ swarm_dials' = swarm_dials
      ]_vars

\* a send to the local peer happened while a peer record and a queued particle exist
C9_Witness ==
    /\ cmd.op = "send"
    /\ cmd.peer = LocalPeer
    /\ Len(queue) >= 2
    /\ contacts # <<>>

\* C10: every subscriber whose channel is still open has received every
\* lifecycle event published after its registration, in publication order,
\* also when other subscribers have been dropped.
C10_SubscribersSeeAllInOrder ==
    \A c \in DOMAIN chans :
        chans[c].open =>
            chans[c].inbox = SubSeq(published, chans[c].since + 1, Len(published))

\* an open subscriber registered after a dropped one has received two events
C10_Witness ==
    \E c, d \in DOMAIN chans :
        /\ d < c
        /\ ~chans[d].open
        /\ chans[c].open
        /\ Len(chans[c].inbox) >= 2
        /\ chans[c].inbox[1] # chans[c].inbox[2]

\* the answers the last step sent to connect waiters, in sending order
ConnectAnswers(ans) == SelectSeq(ans, LAMBDA x : x.out.kind = "connect")

\* C11: every connect waiter pending for peer p when a ConnectionEstablished
\* for p is processed is answered true, whatever failed_addresses contains and
\* whether or not the address was among the dialed ones.
C11_EstablishedAnswersTrue ==
    [][cmd'.op = "connection_established" =>
          LET pending == IF cmd'.peer \in DOMAIN contacts
                         THEN contacts[cmd'.peer].dial_promises ELSE <<>>
          IN  ConnectAnswers(answered') =
                  [i \in DOMAIN pending |-> Answer(pending[i], "true", NoContact)]
      ]_vars

\* C12: a connect waiter is never answered false in a state where the peer
\* still has an established connection, or where its record still holds a
\* connected or dialing address.
C12_FalseOnlyWhenAllFailed ==
    \A i \in AnswersOf("connect") :
        answered[i].val = "false" =>
            LET p == answered[i].out.peer
            IN  /\ NumEstablished(p) = 0
                /\ p \in DOMAIN contacts =>
                       contacts[p].connected \cup contacts[p].dialing = {}

\* C13: when connect(c) does not answer immediately, the Dial it queues lists
\* exactly the addresses of c that are neither in dialing nor in connected of
\* the peer's record, and it queues no Dial when there is no such address.
C13_ConnectDialsFreshAddresses ==
    [][(cmd'.op = "connect" /\ answered' = <<>>) =>
          LET p == cmd'.peer
              known == IF p \in DOMAIN contacts THEN contacts[p] ELSE EmptyPeer
              fresh == cmd'.args \ (known.dialing \cup known.connected)
          IN  events' = IF fresh = {} THEN events
                        ELSE Append(events, DialAction(p, fresh))
      ]_vars

\* the reach attempts inside the swarm that dial(a) started
DialAttempts(dials, a) ==
    Cardinality({i \in DOMAIN dials : dials[i] = Attempt(NoPeer, {a})})

\* C14: when the reach attempt started by dial(a) ends in a dial failure of
\* any kind, every waiter registered for a is answered None and a leaves the
\* waiter map; a dial waiter is answered Some(Contact) only by a
\* ConnectionEstablished whose remote address is the dialed one.
C14_DialFailureAnswersNone ==
    [][/\ \A a \in Addrs :
             (cmd'.op = "dial_failure"
                /\ DialAttempts(swarm_dials', a) < DialAttempts(swarm_dials, a)) =>
                 /\ a \notin DOMAIN dialing'
                 /\ a \in DOMAIN dialing =>
                        SelectSeq(answered', LAMBDA x : x.out.kind = "dial") =
                            [i \in DOMAIN dialing[a] |->
                                Answer(dialing[a][i], "None", NoContact)]
       /\ \A i \in DOMAIN answered' :
             (answered'[i].out.kind = "dial" /\ answered'[i].val = "Some") =>
                 /\ cmd'.op = "connection_established"
                 /\ cmd'.args = answered'[i].out.addrs
      ]_vars

\* C30: disconnect(p) answers true in the same step, while the close is still
\* an action waiting for the swarm; it appends exactly one CloseConnection
\* action for all connections of p and leaves the peer records, the dial and
\* connect waiters, the subscribers and the published events as they were.
C30_DisconnectFireAndForget ==
    [][cmd'.op = "disconnect" =>
          /\ answered' = <<Answer(NewOut("disconnect", cmd'.peer, {}), "true", NoContact)>>
          /\ events' = Append(events, CloseAction(cmd'.peer))
          /\ UNCHANGED <<contacts, dialing, subscribers, published, queue, established>>]_vars

\* disconnect of a peer that has an established connection: it was answered and
\* the connection is still there
C30_Witness ==
    /\ cmd.op = "disconnect"
    /\ HasConnection(cmd.peer)
    /\ \E a \in Addrs : established[cmd.peer][a] > 0
    /\ events # <<>> /\ events[Len(events)] = CloseAction(cmd.peer)
    /\ \E i \in AnswersOf("disconnect") : answered[i].val = "true"

\* the Disconnected events among the published events pub
Disconnects(pub, p) ==
    SelectSeq(pub, LAMBDA e : e.type = "Disconnected" /\ e.peer = p)

\* C32: processing ConnectionClosed(p, addr, remaining) with remaining > 0
\* keeps the record of p, publishes no Disconnected event and answers no
\* connect waiter false, also when a remaining connection has the same remote
\* address as the closed one.
C32_ClosedWithRemainingKeepsPeer ==
    [][(cmd'.op = "connection_closed" /\ NumEstablished(cmd'.peer) - 1 > 0) =>
          /\ cmd'.peer \in DOMAIN contacts => cmd'.peer \in DOMAIN contacts'
          /\ published' = published
          /\ \A i \in DOMAIN answered' :
                answered'[i].out.kind = "connect" => answered'[i].val # "false"
      ]_vars

\* C33: processing ConnectionClosed(p, addr, 0) removes the record of p,
\* publishes exactly one Disconnected event for p and answers every connect
\* waiter still registered for p with false.
C33_LastClosedRemovesPeer ==
    [][(cmd'.op = "connection_closed" /\ NumEstablished(cmd'.peer) - 1 = 0) =>
          LET p == cmd'.peer
              pending == IF p \in DOMAIN contacts
                         THEN contacts[p].dial_promises ELSE <<>>
          IN  /\ p \notin DOMAIN contacts'
              /\ Len(published') = Len(published) + 1
              /\ Len(Disconnects(published', p)) = Len(Disconnects(published, p)) + 1
              /\ ConnectAnswers(answered') =
                     [i \in DOMAIN pending |-> Answer(pending[i], "false", NoContact)]
      ]_vars

\* C34: a DialFailure for a known peer p with a WrongPeerId or Transport error
\* (the errors that name failed addresses) takes only the failed addresses out
\* of the record of p; while another address of p remains the record stays, no
\* connect waiter is answered false and no Disconnected event is published.
C34_DialFailureRemovesOnlyFailed ==
    [][(/\ cmd'.op = "dial_failure"
        /\ cmd'.args # {}
        /\ cmd'.peer \in DOMAIN contacts) =>
          LET p == cmd'.peer
              rest == addresses(contacts[p]) \ cmd'.args
          IN  IF rest # {}
              THEN /\ p \in DOMAIN contacts'
                   /\ addresses(contacts'[p]) = rest
                   /\ published' = published
                   /\ \A i \in DOMAIN answered' :
                         answered'[i].out.kind = "connect" =>
                             answered'[i].val # "false"
              ELSE p \notin DOMAIN contacts'
      ]_vars

\* C35: a DialFailure reporting that the peer is already connected (dial peer
\* condition false) changes nothing: peer records with their connect waiters,
\* dial waiters, subscribers and published events are the same afterwards,
\* and nobody is answered.
C35_AlreadyConnectedIgnored ==
    [][(/\ cmd'.op = "poll"
        /\ events # <<>>
        /\ Head(events).type = "Dial"
        /\ Head(events).peer # NoPeer
        /\ NumEstablished(Head(events).peer) > 0) =>
          /\ UNCHANGED <<contacts, dialing, subscribers, published, swarm_dials>>
          /\ answered' = <<>>
      ]_vars

\* the Dial of a connect for a connected peer was refused by the swarm while
\* the connect waiter is pending
C35_Witness ==
    /\ cmd.op = "poll"
    /\ cmd.peer # NoPeer
    /\ cmd.args # {}
    /\ NumEstablished(cmd.peer) > 0
    /\ cmd.peer \in DOMAIN contacts
    /\ contacts[cmd.peer].dial_promises # <<>>
    /\ swarm_dials = <<>>

\* C38: every Disconnected(p) the pool has published is preceded by a
\* Connected(p) published after the previous Disconnected(p); in particular
\* none is published for a peer that never had an established connection.
C38_DisconnectedFollowsConnected ==
    \A i \in DOMAIN published :
        published[i].type = "Disconnected" =>
            \E j \in 1..(i - 1) :
                /\ published[j].type = "Connected"
                /\ published[j].peer = published[i].peer
                /\ \A k \in (j + 1)..(i - 1) :
                      ~(published[k].type = "Disconnected"
                          /\ published[k].peer = published[i].peer)

\* everything that was queued and not lost: taken by the plumber, in the
\* channel, still in the queue
InOrder(r, o, q) == r \o o.buf \o q

\* C31: while the outlet is open, the particles the plumber took, those in the
\* channel and those in the queue are, in this order, the particles in the
\* order they were queued: a step only appends a newly queued particle at the
\* end, so none is dropped, duplicated or overtaken. A poll that finds the
\* channel full leaves the queue as it is, and a poll ends with the queue empty
\* or the channel full.
C31_QueueForwardedInOrder ==
    [][particle_outlet'.open =>
          LET before == InOrder(received, particle_outlet, queue)
              after == InOrder(received', particle_outlet', queue')
              pushed == \/ cmd'.op = "in_particle"
                        \/ cmd'.op = "send" /\ cmd'.peer = LocalPeer
          IN  /\ IF steps' # steps /\ pushed
                 THEN \E x \in cmd'.args : queue' = Append(queue, x) /\ after = Append(before, x)
                 ELSE after = before
              /\ (steps' # steps /\ cmd'.op = "poll_outlet") =>
                    /\ poll_ready(particle_outlet) = "Pending" =>
                          queue' = queue /\ particle_outlet' = particle_outlet
                    /\ queue' = <<>> \/ Len(particle_outlet'.buf) = OutletCapacity]_vars

\* a poll found the channel full and kept a particle in the queue, after the
\* plumber took x and y went into the channel
C31_Witness ==
    /\ cmd.op = "poll_outlet"
    /\ particle_outlet.open
    /\ received = <<"x">>
    /\ particle_outlet.buf = <<"y">>
    /\ queue # <<>>

\* ================================================================ actor claims
\* executions in flight: tasks on the blocking pool that have not completed
\* and handed the runtime back
InFlight == {i \in DOMAIN blocking : blocking[i].has_vm}

\* C4: for one actor at most one runtime execution is in flight at any time;
\* a new one starts only after the previous one completed and handed the
\* runtime back.
C4_OneExecutionInFlight ==
    /\ Cardinality(InFlight) <= 1
    /\ \A i \in DOMAIN blocking : i < Len(blocking) => ~blocking[i].has_vm

\* a second execution runs while a further particle waits in the mailbox
C4_Witness ==
    /\ Len(blocking) >= 2
    /\ InFlight = {Len(blocking)}
    /\ ~blocking[Len(blocking)].done
    /\ mailbox # <<>>

\* C39: after every return of Actor::poll the state is Idle(vm) or
\* Executing(task), never Polling, and the one runtime is held either by the
\* Idle state or by the task the state is executing: never by both, never by
\* none, never by another task.
C39_RuntimeConserved ==
    /\ vm \in {"Idle", "Executing"}
    /\ vm = "Idle" => (fut = NoTask /\ InFlight = {})
    /\ vm = "Executing" => (fut \in DOMAIN blocking /\ InFlight = {fut})

\* the runtime came back from two executions and rests in the Idle state
C39_Witness ==
    /\ vm = "Idle"
    /\ polled.ready
    /\ Len(blocking) = 2
    /\ InFlight = {}
    /\ mailbox = <<>>

\* ================================================================ chain claims
\* caller c is between reading the nonce and the return of eth_sendRawTransaction
InNonceSection(c) ==
    tx_pc[c] \in {"get_tx_nonce", "get_gas_price", "estimate_gas_limit", "send_raw"}

HoldsNonce(c) == tx_pc[c] \in {"get_gas_price", "estimate_gas_limit", "send_raw"}

\* C5: the sections of two send_tx calls from reading the nonce to
\* eth_sendRawTransaction never overlap; every nonce a call holds is greater
\* than the nonce of the last accepted transaction, and no two accepted
\* transactions carry the same nonce.
C5_NonceSerialised ==
    /\ \A c, d \in Callers : (c # d /\ InNonceSection(c)) => ~InNonceSection(d)
    /\ \A c \in Callers :
          (HoldsNonce(c) /\ submitted # <<>>) =>
              tx_nonce[c] > submitted[Len(submitted)]
    /\ \A i, j \in DOMAIN submitted : i < j => submitted[i] < submitted[j]

\* a call holds a fresh nonce after two accepted transactions while another
\* call waits for the mutex
C5_Witness ==
    /\ Len(submitted) >= 2
    /\ \E c, d \in Callers :
          /\ HoldsNonce(c)
          /\ tx_nonce[c] = chain_count
          /\ tx_pc[d] = "lock"

\* C27: connector.send_tx invoked by a particle whose init_peer_id is not the
\* node's host_id returns an error and sends no request: the call never enters
\* send_tx, so the nonce is not read and nothing is submitted on its behalf.
C27_ForeignCallerRejected ==
    [][\A c \in Callers :
          tx_init_peer_id'[c] \notin {HostId, NoPeer} =>
              /\ tx_pc'[c] = "rejected"
              /\ tx_nonce'[c] = tx_nonce[c]
              /\ c \notin tx_nonce_mutex'
              /\ (tx_pc[c] # "rejected" =>
                     UNCHANGED <<tx_nonce, tx_nonce_mutex, chain_count, submitted>>)]_vars

\* a foreign particle's call was turned down while the host's own call holds
\* the nonce
C27_Witness ==
    \E c, d \in Callers :
        /\ tx_init_peer_id[c] = "p1" /\ tx_pc[c] = "rejected"
        /\ tx_init_peer_id[d] = HostId /\ HoldsNonce(d)

\* ================================================================ kademlia claims
\* the get_closest_peers queries libp2p is running for peer p
InFlightQueries(p) ==
    {id \in DOMAIN lib_queries :
        lib_queries[id].kind = "GetClosestPeers" /\ lib_queries[id].peer = p}

\* C3: at any time at most one in-flight get_closest_peers query exists per
\* target peer, for any interleaving of discover_peer calls, query completions
\* and timeout sweeps.
C3_OneQueryPerTarget ==
    \A p \in KadPeers : Cardinality(InFlightQueries(p)) <= 1

\* the waiters registered in a pending map
Waiters(pending) ==
    UNION {{pending[p][i].out : i \in DOMAIN pending[p]} : p \in DOMAIN pending}

\* C15: while peer p is banned and the routing table holds no address of p,
\* discover_peer(p) answers PeerBanned immediately, registers no pending waiter
\* and starts no Kademlia query.
C15_BannedAnswersPeerBanned ==
    [][\A p \in KadPeers :
          (/\ kad_cmd'.op = "DiscoverPeer"
           /\ kad_cmd'.peer = p
           /\ is_banned(KadState, p)
           /\ p \notin DOMAIN table) =>
              /\ [out |-> next_id, result |-> Err("PeerBanned")] \in kad_answered'
              /\ next_id \notin Waiters(pending_peers')
              /\ lib_queries' = lib_queries
      ]_vars

\* the steps that run Kademlia::poll, and so the sweep
SweepOps == {"poll", "DiscoverPeer", "LocalLookup", "AddContact", "Bootstrap"}

\* C16: once ban_cooldown has elapsed since a peer was banned, the sweep removes
\* its failed-peer entry, however often the wrapper is polled: after a sweep no
\* peer is left banned whose ban was set ban_cooldown or more ago.
C16_BanExpiresAfterCooldown ==
    kad_cmd.op \in SweepOps =>
        \A p \in DOMAIN banned_since :
            ~has_timed_out(now, banned_since[p], BanCooldown)

\* C17: after every sweep, the ban timestamp of every failed-peer entry is set
\* if and only if the entry's fail count is at least peer_fail_threshold.
C17_BanIffThreshold ==
    kad_cmd.op \in SweepOps =>
        \A p \in DOMAIN failed_peers :
            failed_peers[p].ban # <<>> <=> failed_peers[p].count >= PeerFailThreshold

\* a sweep has left one peer banned at the threshold and another one counted
\* but below it
C17_Witness ==
    /\ kad_cmd.op \in SweepOps
    /\ \E p, q \in DOMAIN failed_peers :
          /\ failed_peers[p].ban # <<>>
          /\ failed_peers[p].count = PeerFailThreshold
          /\ failed_peers[q].ban = <<>>
          /\ failed_peers[q].count > 0

\* C18: discover_peer(p) for a peer with at least one address in the routing
\* table answers Ok with p's addresses immediately, starts no query and
\* registers no pending waiter, also when p has a failed-peer entry.
C18_KnownPeerAnswersOk ==
    [][\A p \in KadPeers :
          (/\ kad_cmd'.op = "DiscoverPeer"
           /\ kad_cmd'.peer = p
           /\ p \in DOMAIN table) =>
              /\ [out |-> next_id, result |-> Ok(table[p])] \in kad_answered'
              /\ next_id \notin Waiters(pending_peers')
              /\ lib_queries' = lib_queries
              /\ queries' = queries
      ]_vars

\* the outlets of the bootstrap calls that wait for their answer
BootstrapWaiters ==
    {queries[id].out : id \in {i \in DOMAIN queries : queries[i].kind = "Unit"}}

\* C19: bootstrap() answers Err(NoKnownPeers) when the routing table is empty;
\* otherwise its waiter is eventually answered, whether the bucket queries
\* succeeded or timed out.
C19_BootstrapAnswered ==
    /\ [][(kad_cmd'.op = "Bootstrap" /\ DOMAIN table = {}) =>
             /\ [out |-> next_id, result |-> Err("NoKnownPeers")] \in kad_answered'
             /\ next_id \notin BootstrapWaiters']_vars
    /\ \A out \in 1..MaxIds :
          (out \in BootstrapWaiters) ~> (\E r \in kad_answered : r.out = out)

\* the outlets answered by the last step
AnsweredOuts == {r.out : r \in kad_answered}

\* a waiter registered early enough for its timeout to fall within the time the
\* clock covers
WaitsFor(out) ==
    \E p \in DOMAIN pending_peers : \E i \in DOMAIN pending_peers[p] :
        /\ pending_peers[p][i].out = out
        /\ pending_peers[p][i].created + QueryTimeout * 2 <= MaxTime

\* C20: provided the wrapper keeps being polled, every discover_peer waiter is
\* eventually answered, and answered exactly once, with Ok(addresses),
\* PeerBanned or PeerTimedOut; a waiter whose query finished without addresses
\* is answered by the timeout sweep.
C20_WaitersAnsweredOnce ==
    /\ [][/\ kad_cmd'.op = "DiscoverPeer" =>
                \/ /\ next_id \in AnsweredOuts'
                   /\ next_id \notin Waiters(pending_peers')
                \/ /\ next_id \notin AnsweredOuts'
                   /\ next_id \in Waiters(pending_peers')
          /\ \A r \in kad_answered' :
                /\ r.result.kind \in {"Ok", "PeerBanned", "PeerTimedOut"}
                /\ r.out \in Waiters(pending_peers) \cup {next_id}
                /\ r.out \notin Waiters(pending_peers')
                /\ \A r2 \in kad_answered' : r2.out = r.out => r2 = r
                /\ r.out \in Waiters(pending_peers) =>
                      r.result.kind = IF kad_cmd'.op = "inject_kad_event"
                                      THEN "Ok" ELSE "PeerTimedOut"
          /\ Waiters(pending_peers) \ Waiters(pending_peers') \subseteq AnsweredOuts'
          /\ Waiters(pending_peers') \subseteq Waiters(pending_peers) \cup {next_id}
      ]_vars
    /\ \A out \in 1..MaxIds : WaitsFor(out) ~> (out \in AnsweredOuts)

\* a get_closest_peers query finished without addresses, its waiter stayed
\* pending and the sweep of a later poll answers it PeerTimedOut
C20_Witness ==
    /\ kad_cmd.op = "poll"
    /\ queries = <<>>
    /\ lib_queries = <<>>
    /\ lib_events = <<>>
    /\ \E r \in kad_answered : r.result = Err("PeerTimedOut")

\* the waiters of peer p in a pending map
WaitersOf(pending, p) == IF p \in DOMAIN pending THEN pending[p] ELSE <<>>

\* the fail count of peer p, 0 without an entry
FailCount(failed, p) == IF p \in DOMAIN failed THEN failed[p].count ELSE 0

\* the waiters of peer p the sweep finds older, and younger, than
\* 2 x query_timeout
OldWaiters(p) ==
    {i \in DOMAIN WaitersOf(pending_peers, p) :
        now - pending_peers[p][i].created > QueryTimeout * 2}
YoungWaiters(p) ==
    {i \in DOMAIN WaitersOf(pending_peers, p) :
        now - pending_peers[p][i].created < QueryTimeout * 2}

\* what a sweep step does to the waiters of peer p
ExpiredAndKept(p) ==
    /\ \A i \in OldWaiters(p) :
          /\ pending_peers[p][i].out \notin Waiters(pending_peers')
          /\ [out |-> pending_peers[p][i].out, result |-> Err("PeerTimedOut")]
                 \in kad_answered'
    /\ \A i \in YoungWaiters(p) :
          /\ pending_peers[p][i].out \notin AnsweredOuts'
          /\ \E j \in DOMAIN WaitersOf(pending_peers', p) :
                 pending_peers'[p][j] = pending_peers[p][i]
    /\ p \in DOMAIN pending_peers' => pending_peers'[p] # <<>>

\* the ban of peer p has run out
BanOver(p) ==
    /\ is_banned(KadState, p)
    /\ has_timed_out(now, failed_peers[p].ban[1], BanCooldown)

\* C36 as stated: at every sweep each pending waiter older than
\* 2 x query_timeout is removed and answered PeerTimedOut and the fail count
\* of its peer goes up by one; every younger waiter is kept unanswered; a peer
\* left without waiters leaves the pending map.
C36_SweepAlwaysCounts ==
    [][kad_cmd'.op \in SweepOps =>
          \A p \in KadPeers :
              /\ ExpiredAndKept(p)
              /\ OldWaiters(p) # {} =>
                    FailCount(failed_peers', p) = FailCount(failed_peers, p) + 1
      ]_vars

\* C36, amended: as above, but the fail count of the peer goes up by one only
\* when the ban of the peer has not run out; when it has, the same sweep
\* removes the failed-peer entry together with the count.
C36_SweepExpiresOldWaiters ==
    [][kad_cmd'.op \in SweepOps =>
          \A p \in KadPeers :
              /\ ExpiredAndKept(p)
              /\ OldWaiters(p) # {} =>
                    IF BanOver(p)
                    THEN p \notin DOMAIN failed_peers'
                    ELSE FailCount(failed_peers', p) = FailCount(failed_peers, p) + 1
      ]_vars

\* a sweep answered a waiter PeerTimedOut, counted the failure and kept a
\* younger waiter of the same peer
C36_Witness ==
    /\ kad_cmd.op \in SweepOps
    /\ \E p \in DOMAIN pending_peers :
          /\ p \in DOMAIN failed_peers
          /\ failed_peers[p].count = 1
          /\ \E r \in kad_answered : r.result = Err("PeerTimedOut")
          /\ \A i \in DOMAIN pending_peers[p] :
                now - pending_peers[p][i].created < QueryTimeout * 2

\* the events that report a routable peer
RoutingKinds == {"RoutingUpdated", "RoutablePeer", "PendingRoutablePeer"}

\* C37: on RoutingUpdated, RoutablePeer or PendingRoutablePeer for peer p,
\* every pending waiter of p is answered Ok with the addresses of the event,
\* the pending entry and the failed-peer entry of p are removed, and the
\* waiters and failed-peer entries of the other peers stay as they are.
C37_RoutingEventAnswersWaiters ==
    [][(/\ kad_cmd'.op = "inject_kad_event"
        /\ lib_events # <<>>
        /\ Head(lib_events).kind \in RoutingKinds) =>
          LET e == Head(lib_events)
              ws == WaitersOf(pending_peers, e.peer)
          IN  /\ kad_answered' =
                     {[out |-> ws[i].out, result |-> Ok(e.addrs)] : i \in DOMAIN ws}
              /\ e.peer \notin DOMAIN pending_peers'
              /\ e.peer \notin DOMAIN failed_peers'
              /\ \A q \in KadPeers \ {e.peer} :
                    /\ WaitersOf(pending_peers', q) = WaitersOf(pending_peers, q)
                    /\ q \in DOMAIN failed_peers' <=> q \in DOMAIN failed_peers
                    /\ q \in DOMAIN failed_peers =>
                           failed_peers'[q] = failed_peers[q]
      ]_vars

\* a peer outside the routing table was reported routable: its waiter is
\* answered while another peer keeps its counted failure
C37_Witness ==
    /\ kad_cmd.op = "inject_kad_event"
    /\ table = <<>>
    /\ \E r \in kad_answered : r.result = Ok({KadAddr[kad_cmd.peer]})
    /\ \E q \in DOMAIN failed_peers : q # kad_cmd.peer

\* ================================================================ more actor claims
\* C21: particles ingested by one actor are executed in the order of ingest: the
\* i-th execution is the one of the i-th ingested particle, and it has completed
\* before the next execution starts.
C21_ExecutedInIngestOrder ==
    \A i \in DOMAIN blocking :
        /\ blocking[i].particle.n = i
        /\ i < Len(blocking) => blocking[i].done

\* the second execution has started while a third particle waits in the mailbox
C21_Witness ==
    /\ Len(blocking) = 2
    /\ blocking[1].done
    /\ mailbox # <<>>

\* the tasks whose result a step takes out of the future
Taken == {i \in DOMAIN blocking : blocking[i].has_vm /\ ~blocking'[i].has_vm}

\* C22: under fair polling and a runtime call that returns, every particle
\* ingested by an actor, the one passed to Actor::new included, is executed
\* exactly once, the execution hands the runtime back, and its effects are
\* returned by exactly one poll as Ready(effects); no particle stays in the
\* mailbox forever and none is executed twice.
C22_EveryParticleExecutedOnce ==
    /\ [][/\ \A n \in 1..MaxIngest :
                /\ Cardinality({i \in DOMAIN blocking' : blocking'[i].particle.n = n}) <= 1
                /\ \A j \in DOMAIN mailbox' :
                      mailbox'[j].n = n =>
                          {i \in DOMAIN blocking' : blocking'[i].particle.n = n} = {}
          /\ \A i \in DOMAIN blocking :
                /\ blocking[i].has_vm \/ ~blocking'[i].has_vm
                /\ i \in Taken =>
                      /\ blocking[i].done
                      /\ Taken = {i}
                      /\ polled' = Ready(blocking[i].effects)
          /\ (/\ ingested' = ingested
              /\ \A i \in DOMAIN blocking : blocking'[i].done = blocking[i].done
              /\ polled'.ready) => Taken # {}
      ]_vars
    /\ \A n \in 1..MaxIngest :
          (\E j \in DOMAIN mailbox : mailbox[j].n = n) ~>
              (\E i \in DOMAIN blocking :
                  /\ blocking[i].particle.n = n
                  /\ blocking[i].done
                  /\ ~blocking[i].has_vm)

\* every particle has been executed, the last poll returned the effects of
\* the last one and the actor is idle again
C22_Witness ==
    /\ Len(blocking) = MaxIngest
    /\ \A i \in DOMAIN blocking : blocking[i].done /\ ~blocking[i].has_vm
    /\ polled = Ready(blocking[MaxIngest].effects)
    /\ vm = "Idle"
    /\ mailbox = <<>>

\* C23: for a successful runtime result with next peers T and output data d,
\* execute emits exactly one Forward per element of T, each carrying the input
\* particle with data replaced by d; for a failed result it emits exactly one
\* Forward whose target is the particle's init_peer_id and whose data carries
\* the error.
C23_ForwardPerTarget ==
    \A i \in DOMAIN blocking :
        blocking[i].done =>
            LET r == blocking[i].result[1]
                p == blocking[i].particle
                e == blocking[i].effects
            IN  IF r.ok
                THEN /\ Len(e) = Len(r.targets)
                     /\ \A j \in DOMAIN e :
                           /\ e[j].target = r.targets[j]
                           /\ e[j].particle = [p EXCEPT !.data = r.data]
                ELSE /\ Len(e) = 1
                     /\ e[1].target = p.init_peer_id
                     /\ e[1].particle.data \in {"object+error", "error+data"}
                     /\ [e[1].particle EXCEPT !.data = p.data] = p

\* one execution succeeded with two next peers, another one failed
C23_Witness ==
    \E i, j \in DOMAIN blocking :
        /\ blocking[i].done /\ blocking[i].result[1].ok
        /\ Len(blocking[i].result[1].targets) = 2
        /\ blocking[j].done /\ ~blocking[j].result[1].ok

\* ================================================================ FaaS claims
\* the instances that exist: at rest in faases or held by a future
Instances == faases \cup DOMAIN futures

\* the queued calls for instances that exist
QueuedForInstance ==
    {faas_calls[i] : i \in {j \in DOMAIN faas_calls :
                               /\ ~is_create(faas_calls[j])
                               /\ faas_calls[j].service_id \in Instances}}

\* C40: a queued call for an existing instance that has an execution in flight
\* stays in the queue; a task is spawned for an instance only while no other
\* execution of it is in flight; no call for an existing instance is answered
\* NoSuchInstance; and every queued call for an existing instance is
\* eventually executed.
C40_QueuedCallsExecutedInTurn ==
    /\ [][/\ \A c \in QueuedForInstance :
                c.service_id \in DOMAIN futures =>
                    /\ \E i \in DOMAIN faas_calls' : faas_calls'[i] = c
                    /\ c \notin SeqToSet(faas_spawned')
          /\ \A c \in SeqToSet(faas_spawned') \ SeqToSet(faas_spawned) :
                /\ c.service_id \notin DOMAIN futures
                /\ futures'[c.service_id].call = c.call
          /\ (faas_event' # faas_event /\ faas_event'.result = "NoSuchInstance") =>
                faas_event'.service_id \notin Instances
         ]_vars
    /\ \A c \in {FaaSCall(s, n) : s \in ServiceIds, n \in 1..MaxCalls} :
          (c \in QueuedForInstance) ~> (c \in SeqToSet(faas_spawned))

\* ================================================================ connectivity claims
\* C24: resolve_contact(peer) returns the pool's contact when the pool knows
\* the peer; otherwise it returns the discovered contact only if discovery found
\* addresses and the following pool.connect answered true, and it returns None
\* in every other case.
C24_ResolveNeedsConnect ==
    resolved.target # NoPeer =>
        IF resolved.got # NoContact THEN resolved.result = resolved.got
        ELSE IF /\ resolved.discovered[1].kind = "Ok"
                /\ resolved.discovered[1].addrs # {}
                /\ resolved.connected = <<TRUE>>
        THEN resolved.result = Contact(resolved.target, resolved.discovered[1].addrs)
        ELSE resolved.result = NoContact

\* C25: with bootstrap_frequency N >= 1, kademlia.bootstrap() is triggered
\* exactly on the 1st, N-th, 2N-th, 3N-th, ... Connected event whose address
\* belongs to the bootstrap set, and on no other lifecycle event.
C25_BootstrapEveryNth ==
    /\ bootstrapped =
           {k \in 1..connections.n : k = 1 \/ k % BootstrapFrequency = 0}
    /\ (\E i \in DOMAIN kademlia_calls : kademlia_calls[i].name = "bootstrap") =>
           connections.n \in bootstrapped

\* C26: every bootstrap address, at start and after each Disconnected event
\* that contains it, is redialed until a dial answers a contact; the pause
\* between two attempts never decreases, never exceeds 60 s, and the contact of
\* the successful dial is added to Kademlia before redialing of that address
\* stops.
C26_RedialUntilConnected ==
    /\ [][/\ \A i \in DOMAIN reconnecting :
                LET old == reconnecting[i]
                    new == reconnecting'[i]
                IN  /\ new.addr = old.addr
                    /\ old.pc = "done" => new.pc = "done"
                    /\ (old.pc # "done" /\ new.pc = "done") =>
                          /\ old.pc = "dial"
                          /\ Len(kademlia_calls') = 1
                          /\ kademlia_calls'[1].name = "add_contact"
                          /\ kademlia_calls'[1].contact # NoContact
                    /\ new.pc # "done" =>
                          /\ new.delay >= old.delay
                          /\ new.delay <= ReconnectMax
                    /\ old.pc = "sleep" => new.pc \in {"sleep", "dial"}
          /\ lifecycle_last'.type = "Disconnected" =>
                \A a \in lifecycle_last'.addrs \cap BootstrapNodes :
                    \E i \in DOMAIN reconnecting' \ DOMAIN reconnecting :
                        reconnecting'[i] = [addr |-> a, delay |-> 0, pc |-> "dial"]
      ]_vars
    /\ \A a \in BootstrapNodes : \E i \in DOMAIN reconnecting : reconnecting[i].addr = a

\* the loop started for a1 has reached the longest pause and then connected,
\* a second loop, started by a Disconnected event, still redials
C26_Witness ==
    /\ Len(reconnecting) = 2
    /\ reconnecting[1].pc = "done"
    /\ reconnecting[2].delay = ReconnectMax
    /\ reconnecting[2].pc = "sleep"

\* ================================================================ chain listener claims
\* C29: get_cc_init_params sends exactly one batched request holding the five
\* eth_calls difficulty, init_timestamp, global_nonce, current_epoch,
\* epoch_duration in this order; when it returns parameters, each field holds
\* the decoded result at the position of its call; when one of the five items
\* failed or is missing, it returns an error.
C29_OneBatchFiveCalls ==
    LET order == <<"difficulty", "init_timestamp", "global_nonce",
                   "current_epoch", "epoch_duration">>
        items == cc_init.response.items
    IN  cc_init.result.kind # "none" =>
          /\ cc_init.batches = <<order>>
          /\ cc_init.result.kind = "Ok" =>
                \A i \in 1..5 :
                    /\ i <= Len(items)
                    /\ <<cc_init.result.params[order[i]]>> = decode(items[i].value)
          /\ (\E i \in 1..5 : IF i > Len(items) THEN TRUE ELSE ~items[i].ok) =>
                cc_init.result.kind = "Err"

\* a call got all five items, with different values, and returned them
C29_Witness ==
    /\ cc_init.result.kind = "Ok"
    /\ cc_init.result.params["init_timestamp"] = 1
    /\ cc_init.result.params["global_nonce"] = 2
    /\ Len(cc_init.response.items) = 5

\* C28: a subscribe call retries after every non-fatal error and stops at the
\* first RestartNeeded error; that error ends the call, the next thing that
\* happens is restart, and a restart that succeeds leaves a newly built client
\* in place of the old one.
C28_RetryUntilRestartNeeded ==
    [][/\ (sub_pc = "subscribe" /\ sub_err' = "Other") =>
             sub_pc' = "subscribe_sleep"
       /\ (sub_pc = "subscribe_sleep" /\ sub_pc' # sub_pc) => sub_pc' = "subscribe"
       /\ (sub_pc = "subscribe" /\ sub_err' = "RestartNeeded") =>
             /\ sub_pc' = "idle"
             /\ sub_result' = Returned("subscribe", "RestartNeeded")
       /\ (sub_pc = "idle" /\ sub_result = Returned("subscribe", "RestartNeeded")
              /\ subVars' # subVars) =>
             sub_pc' = "create_ws_client"
       /\ (sub_pc = "create_ws_client" /\ sub_pc' = "idle"
              /\ sub_result' = Returned("restart", "Ok")) =>
             ws_client' = ws_client + 1]_vars

====
